---------------------------- MODULE Spec2Model ----------------------------
(***************************************************************************)
(* Model of the GitLab entrypoint of the Claude Code action:               *)
(*   main / runPreparePhase / runExecutePhase / runUpdatePhase and the     *)
(*   tracking-comment updater script (run, formatGitLabCommentBody).       *)
(* One behaviour of Spec is one run of main() in one CI job.               *)
(*                                                                         *)
(* Subprocesses are started with Bun's `$`.  A `$` command whose process   *)
(* exits non-zero rejects (ShellError) unless .nothrow() is used; no call  *)
(* site of the entrypoint uses .nothrow(), so a non-zero exit is modelled  *)
(* as an exception raised at the await.                                    *)
(***************************************************************************)
EXTENDS Integers, Sequences, FiniteSets, TLC

VARIABLES
    pc,             \* position of main() / of the phase function it awaits
    env,            \* process.env of the job (fixed for the run)
    prepareResult,  \* main's prepareResult : PhaseResult
    executeResult,  \* main's executeResult : PhaseResult
    updateResult,   \* the PhaseResult returned by the last runUpdatePhase
    exitCode,       \* main's local exitCode
    exitStatus,     \* the status the process exited with (NoExit while running)
    log,            \* phase calls and returns, in order
    git,            \* the repository in CI_PROJECT_DIR
    files,          \* transcript files in the temp directory
    fx,             \* externally visible effects so far
    exec,           \* what happened inside the runExecutePhase call
    upd             \* locals of the runUpdatePhase call in progress

vars == <<pc, env, prepareResult, executeResult, updateResult, exitCode,
          exitStatus, log, git, files, fx, exec, upd>>

----------------------------------------------------------------------------
(* JavaScript values *)

\* an absent optional string field / an unset environment variable
UNDEF == "undefined"

\* numbers as held by PhaseResult.commentId: undefined, NaN or an integer
Undefined == [t |-> "undefined"]
NaN == [t |-> "NaN"]
Num(n) == [t |-> "number", v |-> n]

\* JavaScript truthiness of a commentId (`!prepareResult.commentId`)
Truthy(x) == x.t = "number" /\ x.v # 0

\* truthiness of an optional string (unset and "" are falsy)
Set(s) == s # UNDEF /\ s # ""

----------------------------------------------------------------------------
(* Bounds *)

\* longest content of /tmp/claude-comment-id.txt that is enumerated
MaxIdLen == 1

\* characters the comment-id file is made of: two digits and a non-digit
IdChars == {"0", "7", "a"}

RECURSIVE SeqsUpTo(_, _)
SeqsUpTo(S, n) ==
    IF n = 0 THEN {<<>>}
    ELSE LET shorter == SeqsUpTo(S, n - 1)
         IN  shorter \cup {Append(s, c) : s \in {x \in shorter : Len(x) = n - 1}, c \in S}

----------------------------------------------------------------------------
(* Number <-> text *)

Digits == {"0", "1", "2", "3", "4", "5", "6", "7", "8", "9"}

DigitVal(c) ==
    CASE c = "0" -> 0 [] c = "1" -> 1 [] c = "2" -> 2 [] c = "3" -> 3
      [] c = "4" -> 4 [] c = "5" -> 5 [] c = "6" -> 6 [] c = "7" -> 7
      [] c = "8" -> 8 [] c = "9" -> 9

DigitChar(d) ==
    CASE d = 0 -> "0" [] d = 1 -> "1" [] d = 2 -> "2" [] d = 3 -> "3"
      [] d = 4 -> "4" [] d = 5 -> "5" [] d = 6 -> "6" [] d = 7 -> "7"
      [] d = 8 -> "8" [] d = 9 -> "9"

\* the longest prefix of s made of decimal digits
RECURSIVE DigitPrefix(_)
DigitPrefix(s) ==
    IF s = <<>> \/ Head(s) \notin Digits THEN <<>>
    ELSE <<Head(s)>> \o DigitPrefix(Tail(s))

RECURSIVE DigitsValue(_, _)
DigitsValue(s, acc) ==
    IF s = <<>> THEN acc ELSE DigitsValue(Tail(s), 10 * acc + DigitVal(Head(s)))

\* parseInt(s) of a trimmed string: optional sign, then the leading decimal
\* digits; NaN when there is none.  (No "0x" prefix occurs over IdChars.)
ParseInt(s) ==
    LET neg  == s # <<>> /\ Head(s) = "-"
        body == IF s # <<>> /\ Head(s) \in {"-", "+"} THEN Tail(s) ELSE s
        ds   == DigitPrefix(body)
    IN  IF ds = <<>> THEN NaN
        ELSE Num(IF neg THEN 0 - DigitsValue(ds, 0) ELSE DigitsValue(ds, 0))

RECURSIVE NatToString(_)
NatToString(n) ==
    IF n < 10 THEN <<DigitChar(n)>>
    ELSE Append(NatToString(n \div 10), DigitChar(n % 10))

\* Number.prototype.toString() of an integer
NumToString(n) == IF n < 0 THEN <<"-">> \o NatToString(0 - n) ELSE NatToString(n)


----------------------------------------------------------------------------
(* PhaseResult and the environment *)

\* interface PhaseResult { success; error?; commentId?; outputFile? }
PhaseResult(s, e, c, o) == [success |-> s, error |-> e, commentId |-> c, outputFile |-> o]

\* message of the ShellError a `$` command rejects with on a non-zero exit
ShellErrorMessage == "Failed with exit code 1"

NoTriggerError == "No trigger found"

\* the two transcript files base-action leaves in the temp directory
JsonFile == "claude-execution-output.json"
TxtFile == "output.txt"

\* exitStatus while the process is still running
NoExit == -1

\* branch names of the repository; "HEAD" is what rev-parse prints when detached
WorkBranch == "work"
MainBranch == "main"

\* process.env as the entrypoint and the scripts it starts read it
Envs ==
    [ CI_PROJECT_DIR       : {UNDEF, "/builds/group/project"},
      CI_PROJECT_PATH      : {UNDEF, "group/project"},
      CLAUDE_RESOURCE_TYPE : {UNDEF, "issue", "merge_request"},
      CLAUDE_RESOURCE_ID   : {UNDEF, "5"},
      CI_MERGE_REQUEST_IID : {UNDEF, "8"},
      CI_PROJECT_ID        : {UNDEF, "42"} ]

\* A line of `git status`: the path, and whether HEAD has the file (a
\* modification or deletion) or not (a new, untracked file).
Entry(path, tracked) == [path |-> path, tracked |-> tracked]

\* the paths the patterns of checkGitStatus and createMergeRequest tell apart
AllPaths == {"src/app.ts", "debug.log", "output.txt", ".claude/settings.json"}

StatusEntries == {Entry(p, t) : p \in AllPaths, t \in BOOLEAN}

\* what the assistant leaves behind in a run of main: new files only
Paths == {Entry("src/app.ts", FALSE), Entry("debug.log", FALSE)}

\* the repository when the job starts: the checked-out branch, the local
\* branches, the branches of origin, whether origin's URL is the one of
\* CI_PROJECT_PATH, and the changed paths of the working tree (a clean checkout)
GitStates ==
    { g \in [cur : {MainBranch, WorkBranch}, locals : SUBSET {MainBranch, WorkBranch},
             remote : {{MainBranch, WorkBranch}}, origin : {"expected", "other"},
             tree : {{}}] :
        g.locals = {MainBranch, g.cur} }

\* how many things a job may start with that a configured GitLab job does not have
MaxFaults == 1

\* the departures of a job's start from a configured job: an unset variable
\* among those GitLab CI and the webhook provide, or a foreign origin
Faults(e, g) ==
    Cardinality({v \in {"CI_PROJECT_DIR", "CI_PROJECT_PATH", "CI_PROJECT_ID",
                        "CLAUDE_RESOURCE_TYPE", "CLAUDE_RESOURCE_ID"} : e[v] = UNDEF})
        + (IF g.origin = "expected" THEN 0 ELSE 1)

JobStarts == {s \in Envs \X GitStates : Faults(s[1], s[2]) <= MaxFaults}

NoEffects ==
    [ reconcile |-> 0,    \* runs of the branch set-up of runExecutePhase
      assistant |-> 0,    \* launches of base-action (the assistant)
      classify  |-> 0,    \* calls of checkGitStatus
      submit    |-> 0,    \* calls of createMergeRequest
      post      |-> 0,    \* calls of postClaudeResponse
      commits   |-> 0,    \* git commit
      pushes    |-> 0,    \* git push
      comments  |-> 0,    \* provider.createComment calls that were made
      updater   |-> <<>>, \* launches of update-comment-gitlab.ts: what each was handed
      edits     |-> <<>> ]  \* note edits made by the updater, in order

\* fault: the step of runExecutePhase whose error reached its catch;
\* target: CLAUDE_BRANCH as the call in progress read it
NoExecute == [fault |-> UNDEF, target |-> UNDEF]

NoUpdate == [caller |-> "none", hasChanges |-> FALSE, invoked |-> "none", raised |-> FALSE]

Init ==
    /\ pc = "prepare"
    /\ \E s \in JobStarts : env = s[1] /\ git = s[2]
    /\ prepareResult = PhaseResult(FALSE, UNDEF, Undefined, UNDEF)
    /\ executeResult = PhaseResult(FALSE, UNDEF, Undefined, UNDEF)
    /\ updateResult = PhaseResult(FALSE, UNDEF, Undefined, UNDEF)
    /\ exitCode = 0
    /\ exitStatus = NoExit
    /\ log = <<>>
    /\ files = [json |-> FALSE, txt |-> FALSE]
    /\ fx = NoEffects
    /\ exec = NoExecute
    /\ upd = NoUpdate

----------------------------------------------------------------------------
(* Phase 1: runPreparePhase *)

\* /tmp/claude-comment-id.txt as prepare.ts left it
IdFiles ==
    {[kind |-> "absent", text |-> <<>>], [kind |-> "unreadable", text |-> <<>>]}
        \cup {[kind |-> "content", text |-> t] : t \in SeqsUpTo(IdChars, MaxIdLen)}

\* lines 328-343: the comment id read back from the file
ReadCommentId(file) ==
    IF file.kind = "content" /\ file.text # <<>> THEN ParseInt(file.text)
    ELSE Undefined

\* a runPreparePhase that reads the comment id before it tests the outcome
\* of prepare.ts and returns it with a failure too
PrepareResultKeepingId(exit, stderr, noTrigger, file) ==
    IF exit # 0
        THEN PhaseResult(FALSE, ShellErrorMessage, ReadCommentId(file), UNDEF)
    ELSE IF noTrigger
        THEN PhaseResult(FALSE, NoTriggerError, ReadCommentId(file), UNDEF)
    ELSE PhaseResult(TRUE, UNDEF, ReadCommentId(file), UNDEF)

\* the PhaseResult of runPreparePhase for one outcome of prepare.ts
PrepareResultOf(exit, stderr, noTrigger, file) ==
    IF exit # 0
        THEN PhaseResult(FALSE, ShellErrorMessage, Undefined, UNDEF)
    ELSE IF exit # 0
        THEN PhaseResult(FALSE, IF Set(stderr) THEN stderr ELSE "Prepare step failed",
                         Undefined, UNDEF)
    ELSE IF noTrigger
        THEN PhaseResult(FALSE, NoTriggerError, Undefined, UNDEF)
    ELSE PhaseResult(TRUE, UNDEF, ReadCommentId(file), UNDEF)

RunPreparePhase ==
    /\ pc = "prepare"
    /\ \E exit \in {0, 1}, stderr \in {"", "boom"}, noTrigger \in BOOLEAN, file \in IdFiles :
          prepareResult' = PrepareResultOf(exit, stderr, noTrigger, file)
    /\ log' = log \o <<"prepare", "prepare_ret">>
    /\ pc' = "main_prepared"
    /\ UNCHANGED <<exec, env, executeResult, updateResult, exitCode, exitStatus, git, files, fx, upd>>

----------------------------------------------------------------------------
(* main, lines 1087-1094 *)

\* process.exit(code): line 1091 and line 1129
Exits(code) ==
    /\ exitStatus' = code
    /\ pc' = "exited"

\* a main that treats "No trigger found" like every other prepare failure
AfterPrepareNoTriggerFatal(pr) ==
    IF ~pr.success THEN "catch" ELSE "exec_branch"

\* a main that stops for "No trigger found" only and otherwise goes on
AfterPrepareIgnoringFailure(pr) ==
    IF ~pr.success /\ pr.error = NoTriggerError THEN "exit0" ELSE "exec_branch"

\* where main goes once runPreparePhase has returned
AfterPrepare(pr) ==
    IF ~pr.success
        THEN IF pr.error = NoTriggerError THEN "exit0" ELSE "catch"
    ELSE "exec_branch"

MainAfterPrepare ==
    /\ pc = "main_prepared"
    /\ LET next == AfterPrepare(prepareResult)
       IN  CASE next = "exit0" ->
                  /\ Exits(0)
                  /\ log' = log
             [] next = "catch" ->
                  /\ pc' = "catch"
                  /\ UNCHANGED <<exitStatus, log>>
             [] OTHER ->
                  /\ pc' = "exec_branch"
                  /\ log' = Append(log, "execute")
                  /\ UNCHANGED exitStatus
    /\ UNCHANGED <<exec, env, prepareResult, executeResult, updateResult, exitCode, git, files, fx, upd>>

----------------------------------------------------------------------------
(* Phases 2-5: runExecutePhase *)

\* a catch that returns the error without the comment id
ExecuteFailureDroppingId(pr, msg) == PhaseResult(FALSE, msg, Undefined, UNDEF)

\* lines 529-536: the catch of runExecutePhase
ExecuteFailure(pr, msg) == PhaseResult(FALSE, msg, pr.commentId, UNDEF)

\* the path getClaudeExecutionOutputPath() gives (utils/temp-directory)
FallbackFile == "execution-output-fallback"

\* fs.existsSync(name), with f telling which of the two base-action files
\* exist and fallback whether the file at FallbackFile does
FileExists(name, f, fallback) ==
    \/ name = JsonFile /\ f.json
    \/ name = TxtFile /\ f.txt
    \/ name = FallbackFile /\ fallback

\* the loops of lines 38-49 and 873-886: the first candidate that is a path
\* and exists (UNDEF: none)
RECURSIVE FirstExisting(_, _, _)
FirstExisting(candidates, f, fallback) ==
    IF candidates = <<>> THEN UNDEF
    ELSE IF Set(Head(candidates)) /\ FileExists(Head(candidates), f, fallback)
        THEN Head(candidates)
    ELSE FirstExisting(Tail(candidates), f, fallback)

\* lines 17-49: the file getExecutionDetails reads when given outputFile
DetailsFile(outputFile, f) ==
    IF ~Set(outputFile) THEN UNDEF
    ELSE FirstExisting(<<outputFile, JsonFile, TxtFile>>, f, FALSE)

\* lines 861-886: the file postClaudeResponse reads
PosterFile(er, f, fallback) ==
    FirstExisting(<<er.outputFile, JsonFile, TxtFile, FallbackFile>>, f, fallback)

\* a choice that prefers the JSONL file
ActualOutputFileTxtFirst(jsonExists, txtExists) ==
    IF txtExists THEN TxtFile ELSE JsonFile

\* line 520: the transcript file handed on
ActualOutputFile(jsonExists, txtExists) ==
    IF jsonExists THEN JsonFile ELSE IF txtExists THEN TxtFile ELSE JsonFile

\* lines 522-528: the PhaseResult once base-action has been awaited
ExecuteReturn(pr, exit, jsonExists, txtExists) ==
    PhaseResult(exit = 0,
                IF exit # 0 THEN "Claude execution failed" ELSE UNDEF,
                pr.commentId,
                ActualOutputFile(jsonExists, txtExists))

\* control leaves runExecutePhase with result r; fault names the step whose
\* error reached the catch of line 529 (UNDEF when no step failed)
ExecReturns(r, fault) ==
    /\ executeResult' = r
    /\ exec' = [fault |-> fault, target |-> UNDEF]
    /\ log' = Append(log, "execute_ret")
    /\ pc' = "main_executed"

\* what `git rev-parse --abbrev-ref HEAD` prints for the checked-out branch b:
\* the short name, or "heads/<b>" when a tag of the same name makes it ambiguous
RevParseOutputs(b) == {b, "heads/" \o b}

\* a set-up that falls back to local creation only when the fetch failed
NeedsFallbackAfterFetchOnly(fetched, checked) == ~fetched

\* lines 378-383: the catch is entered when the fetch or the checkout throws
NeedsFallback(fetched, checked) == ~(fetched /\ checked)

\* the git commands lines 380-387 ran, in their order
CommandsRun(fetched, fallback) ==
    <<"fetch">> \o (IF fetched THEN <<"checkout">> ELSE <<>>)
               \o (IF fallback THEN <<"create">> ELSE <<>>)

\* a set-up that trusts the commands and does not read the branch back
SetupBranchUnverified(g, target, fetchOk, checkoutOk, createOk, readBack) ==
    LET fetched   == fetchOk /\ target \in g.remote /\ target # g.cur
        g1        == IF fetched THEN [g EXCEPT !.locals = @ \cup {target}] ELSE g
        checked   == fetched /\ checkoutOk
        g2        == IF checked THEN [g1 EXCEPT !.cur = target] ELSE g1
        fallback  == NeedsFallback(fetched, checked)
        created   == fallback /\ createOk /\ target \notin g1.locals
        g3        == IF created
                        THEN [g2 EXCEPT !.cur = target, !.locals = @ \cup {target}]
                        ELSE g2
    IN  [git |-> g3, threw |-> UNDEF, fetched |-> fetched, checked |-> checked,
         created |-> created, ran |-> CommandsRun(fetched, fallback)]

\* lines 370-405: fetch-and-checkout, local creation as the fallback, then
\* the read-back of the current branch.  out.threw is the message of the
\* error that leaves the block (UNDEF when none does); fetched, checked and
\* created tell which of the three commands succeeded, ran which were run.
SetupBranch(g, target, fetchOk, checkoutOk, createOk, readBack) ==
    LET fetched   == fetchOk /\ target \in g.remote /\ target # g.cur
        g1        == IF fetched THEN [g EXCEPT !.locals = @ \cup {target}] ELSE g
        checked   == fetched /\ checkoutOk
        g2        == IF checked THEN [g1 EXCEPT !.cur = target] ELSE g1
        fallback  == NeedsFallback(fetched, checked)
        created   == fallback /\ createOk /\ target \notin g1.locals
        g3        == IF created
                        THEN [g2 EXCEPT !.cur = target, !.locals = @ \cup {target}]
                        ELSE g2
        threw     == IF fallback /\ ~created THEN "Failed to setup working branch"
                     ELSE IF readBack # target THEN "Branch checkout failed"
                     ELSE UNDEF
    IN  [git |-> g3, threw |-> threw, fetched |-> fetched, checked |-> checked,
         created |-> created, ran |-> CommandsRun(fetched, fallback)]

ExecSetupBranch ==
    /\ pc = "exec_branch"
    /\ \E claudeBranch \in {UNDEF, WorkBranch} :
          IF Set(claudeBranch) /\ Set(env.CI_PROJECT_DIR)
             THEN \E chdirOk, fetchOk, checkoutOk, createOk \in BOOLEAN :
                    IF ~chdirOk
                       THEN /\ ExecReturns(ExecuteFailure(prepareResult, "ENOENT: chdir"), "chdir")
                            /\ UNCHANGED <<git, fx>>
                       ELSE \E readBack \in RevParseOutputs(
                                    SetupBranch(git, claudeBranch, fetchOk, checkoutOk,
                                                createOk, claudeBranch).git.cur) :
                              LET out == SetupBranch(git, claudeBranch, fetchOk,
                                                     checkoutOk, createOk, readBack)
                              IN  /\ git' = out.git
                                  /\ fx' = [fx EXCEPT !.reconcile = @ + 1]
                                  /\ IF out.threw # UNDEF
                                        THEN ExecReturns(ExecuteFailure(prepareResult, out.threw),
                                                         "branch")
                                        ELSE /\ pc' = "exec_install"
                                             /\ exec' = [exec EXCEPT !.target = claudeBranch]
                                             /\ UNCHANGED <<executeResult, log>>
             ELSE /\ pc' = "exec_install"
                  /\ exec' = [exec EXCEPT !.target = claudeBranch]
                  /\ UNCHANGED <<executeResult, log, git, fx>>
    /\ UNCHANGED <<env, prepareResult, updateResult, exitCode, exitStatus, files, upd>>

\* lines 411-420: bun install -g @anthropic-ai/claude-code
ExecInstall ==
    /\ pc = "exec_install"
    /\ \E exit \in {0, 1} :
          IF exit # 0
             THEN ExecReturns(ExecuteFailure(prepareResult, ShellErrorMessage), "install")
             ELSE /\ pc' = "exec_deps"
                  /\ UNCHANGED <<executeResult, exec, log>>
    /\ UNCHANGED <<env, prepareResult, updateResult, exitCode, exitStatus, git, files, fx, upd>>

\* lines 426-439: bun install of the base-action dependencies
ExecInstallDeps ==
    /\ pc = "exec_deps"
    /\ \E exit \in {0, 1} :
          IF exit # 0
             THEN ExecReturns(ExecuteFailure(prepareResult, ShellErrorMessage), "deps")
             ELSE /\ pc' = "exec_run"
                  /\ UNCHANGED <<executeResult, exec, log>>
    /\ UNCHANGED <<env, prepareResult, updateResult, exitCode, exitStatus, git, files, fx, upd>>

\* lines 445-528: the prompt preview (its read error is swallowed), the
\* assistant run, the look for its transcript files, the result
ExecRunClaude ==
    /\ pc = "exec_run"
    /\ \E exit \in {0, 1}, jsonExists, txtExists \in BOOLEAN :
          /\ files' = [json |-> jsonExists, txt |-> txtExists]
          /\ fx' = [fx EXCEPT !.assistant = @ + 1]
          /\ \E t \in SUBSET Paths : git' = [git EXCEPT !.tree = t]
          /\ IF exit # 0
                THEN ExecReturns(ExecuteFailure(prepareResult, ShellErrorMessage), "claude")
                ELSE ExecReturns(ExecuteReturn(prepareResult, exit, jsonExists, txtExists),
                                 UNDEF)
    /\ UNCHANGED <<env, prepareResult, updateResult, exitCode, exitStatus, upd>>

----------------------------------------------------------------------------
(* main, lines 1099-1106 *)

\* a main that only logs the failed execution
ExitCodeKept(code, er) == code

\* lines 1099-1102: the exit code once runExecutePhase has returned
ExitCodeAfterExecute(code, er) == IF ~er.success THEN 1 ELSE code

\* runUpdatePhase is entered by main (caller "main") or by its fatal-error
\* handler (caller "catch")
UpdateStarts(caller) ==
    /\ upd' = [caller |-> caller, hasChanges |-> FALSE, invoked |-> "none", raised |-> FALSE]
    /\ log' = Append(log, "update")
    /\ pc' = "upd_classify"

\* a main that reports back only after a successful execution
MainAfterExecuteSkippingUpdate ==
    /\ pc = "main_executed"
    /\ exitCode' = ExitCodeAfterExecute(exitCode, executeResult)
    /\ IF executeResult.success
          THEN /\ UpdateStarts("main")
               /\ UNCHANGED exitStatus
          ELSE /\ Exits(exitCode')
               /\ UNCHANGED <<log, upd>>
    /\ UNCHANGED <<exec, env, prepareResult, executeResult, updateResult, git, files, fx>>

MainAfterExecute ==
    /\ pc = "main_executed"
    /\ exitCode' = ExitCodeAfterExecute(exitCode, executeResult)
    /\ UpdateStarts("main")
    /\ UNCHANGED <<exec, env, prepareResult, executeResult, updateResult, exitStatus, git, files, fx>>

----------------------------------------------------------------------------
(* Phase 6, first half: checkGitStatus, createMergeRequest, postClaudeResponse *)

\* find . -name <pattern> -type f -delete for the patterns of lines 582-590:
\* the file name matches *.log, *.tmp, output.txt, .claude-* or .DS_Store
\* ("/tmp/claude-*" and "node_modules/.cache" hold a slash and match no name)
FindNoise(p) == p \in {"debug.log", "output.txt"}

\* rm -rf .claude (lines 593-615)
UnderClaudeDir(p) == p \in {".claude/settings.json"}

\* the filter of lines 628-636 drops the path: it has "/tmp/", ".claude" or
\* "node_modules/.cache" in it, or ends in .log or .tmp
FilterNoise(p) == p \in {"debug.log", ".claude/settings.json"}

\* the find of lines 688-698: *.log, *.tmp, output.txt, .claude-*, .DS_Store
SubmitFindNoise(p) == p \in {"debug.log", "output.txt"}

\* the pathspecs "*.log" "*.tmp" "output.txt" ".claude-*" of line 746
ResetNoise(p) == p \in {"debug.log", "output.txt"}

\* the filter of lines 766-772 drops the path: it has "/tmp/" or ".claude" in
\* it, or ends in .log or .tmp
SubmitFilterNoise(p) == p \in {"debug.log", ".claude/settings.json"}

\* what is left of the status entries once the files at the paths of gone are
\* deleted: a new file is gone, a file of HEAD is now listed as deleted
AfterDelete(tree, gone) == {p \in tree : p.tracked \/ p.path \notin gone}

\* the branch createMergeRequest derives from resource type, id and
\* Date.now() (lines 710-713), for the instant now
GeneratedBranch(now) == IF now = 1 THEN "claude-generated-1" ELSE "claude-generated-2"

\* lines 711-713: the source branch of the merge request when the pipeline
\* has one, else the derived name
BranchName(src, now) == IF Set(src) THEN src ELSE GeneratedBranch(now)

\* a checkGitStatus that cleans up before it looks at the directory and at
\* the origin
CheckGitStatusCleaningFirst(e, g, o) ==
    LET found     == {p \in AllPaths : o.findOk /\ FindNoise(p)}
        rmd       == {p \in AllPaths : o.rmOk /\ UnderClaudeDir(p)}
        cleaned   == AfterDelete(g.tree, found \cup rmd)
        g1        == [g EXCEPT !.tree = cleaned]
    IN  IF ~Set(e.CI_PROJECT_DIR) \/ ~o.chdirOk \/ ~o.remoteOk \/ ~o.statusOk
            THEN [result |-> FALSE, git |-> g1]
        ELSE IF Set(e.CI_PROJECT_PATH) /\ g.origin # "expected"
            THEN [result |-> FALSE, git |-> g1]
        ELSE [result |-> \E p \in cleaned : ~FilterNoise(p.path), git |-> g1]

\* checkGitStatus (lines 552-654).  o: which commands of this call succeed.
CheckGitStatus(e, g, o) ==
    LET found     == {p \in AllPaths : o.findOk /\ FindNoise(p)}
        rmd       == {p \in AllPaths : o.rmOk /\ UnderClaudeDir(p)}
        cleaned   == AfterDelete(g.tree, found \cup rmd)
        g1        == [g EXCEPT !.tree = cleaned]
    IN  IF ~Set(e.CI_PROJECT_DIR) THEN [result |-> FALSE, git |-> g]
        ELSE IF ~o.chdirOk \/ ~o.remoteOk THEN [result |-> FALSE, git |-> g]
        ELSE IF Set(e.CI_PROJECT_PATH) /\ g.origin # "expected"
            THEN [result |-> FALSE, git |-> g]
        ELSE IF ~o.statusOk THEN [result |-> FALSE, git |-> g1]
        ELSE [result |-> \E p \in cleaned : ~FilterNoise(p.path), git |-> g1]

ClassifyOutcomes ==
    [chdirOk : BOOLEAN, remoteOk : BOOLEAN, findOk : BOOLEAN, rmOk : BOOLEAN,
     statusOk : BOOLEAN]

\* the commands of createMergeRequest that can fail on their own
SubmitFaults == {"none", "chdir", "remote", "revparse", "config", "branch", "status",
                 "add", "commit", "seturl", "push", "comment"}

\* a submitter that creates its branch whatever branch is checked out
MustCreateAlways(cur, branchName) == TRUE

\* line 720: the branch is created unless it is the one checked out
MustCreate(cur, branchName) == cur # branchName

\* a submitter that posts the follow-up comment whether or not there is a
\* tracking comment
PostsFollowUpWithoutId(mrUrl, commentId) == mrUrl

\* lines 825 and 829: the follow-up comment is posted when the push output
\* holds a merge-request URL and prepareResult.commentId is truthy
PostsFollowUp(mrUrl, commentId) == mrUrl /\ Truthy(commentId)

\* lines 785-838 in their order: git commit, git remote set-url, git push,
\* createComment
SubmitSteps == <<"commit", "seturl", "push", "comment">>

\* what one call of createMergeRequest did: the repository it leaves, the
\* message of the error it re-threw (UNDEF on a return), the branch it
\* created (UNDEF if none), the entries it committed, how many commits,
\* pushes and comments it made, and the steps of SubmitSteps it completed (the
\* first done of them), in the order in which it completed them
SubmitResult(g, raised, created, committed, pushes, comments, done) ==
    [git |-> g, raised |-> raised, created |-> created, committed |-> committed,
     commits |-> IF committed = {} THEN 0 ELSE 1, pushes |-> pushes,
     comments |-> comments, steps |-> SubSeq(SubmitSteps, 1, done)]

\* createMergeRequest (lines 656-845).  src is CI_MERGE_REQUEST_SOURCE_BRANCH_NAME,
\* now the instant of Date.now(), failAt the command that fails on its own (if
\* any), findOk whether the find commands work, resetOk whether git accepts the
\* pathspecs of `git reset HEAD -- ... "/tmp/*"` (it does not when /tmp is
\* outside the repository: it then unstages nothing), mrUrl whether the push
\* output holds a merge-request URL, tokenOk whether getToken finds a token.
\* `git checkout -- <pathspecs>` of line 747 restores nothing here: one of its
\* pathspecs always matches no file git knows.
CreateMergeRequest(e, g, pr, src, now, failAt, findOk, resetOk, mrUrl, tokenOk) ==
    LET branchName == BranchName(src, now)
        found      == {p \in AllPaths : findOk /\ SubmitFindNoise(p)}
        cleaned    == AfterDelete(g.tree, found)
        g1         == [g EXCEPT !.tree = cleaned]
        mustCreate == MustCreate(g1.cur, branchName)
        made       == IF mustCreate THEN branchName ELSE UNDEF
        g2         == IF mustCreate
                         THEN [g1 EXCEPT !.cur = branchName, !.locals = @ \cup {branchName}]
                         ELSE g1
        staged     == IF resetOk THEN {p \in cleaned : ~ResetNoise(p.path)} ELSE cleaned
        valid      == {p \in cleaned : ~SubmitFilterNoise(p.path)}
        g3         == [g2 EXCEPT !.tree = cleaned \ staged]
        g4         == [g3 EXCEPT !.origin = IF Set(e.CI_PROJECT_PATH) THEN "expected" ELSE @]
        g5         == [g4 EXCEPT !.remote = @ \cup {branchName}]
    IN  IF ~Set(e.CI_PROJECT_DIR)
            THEN SubmitResult(g, "CI_PROJECT_DIR is not set!", UNDEF, {}, 0, 0, 0)
        ELSE IF failAt \in {"chdir", "remote"}
            THEN SubmitResult(g, ShellErrorMessage, UNDEF, {}, 0, 0, 0)
        ELSE IF Set(e.CI_PROJECT_PATH) /\ g.origin # "expected"
            THEN SubmitResult(g, "Wrong repository!", UNDEF, {}, 0, 0, 0)
        ELSE IF failAt \in {"revparse", "config"}
            THEN SubmitResult(g1, ShellErrorMessage, UNDEF, {}, 0, 0, 0)
        ELSE IF mustCreate /\ (failAt = "branch" \/ branchName \in g1.locals)
            THEN SubmitResult(g1, ShellErrorMessage, UNDEF, {}, 0, 0, 0)
        ELSE IF failAt = "status" THEN SubmitResult(g2, ShellErrorMessage, made, {}, 0, 0, 0)
        ELSE IF cleaned = {} THEN SubmitResult(g2, UNDEF, made, {}, 0, 0, 0)
        ELSE IF failAt = "add" THEN SubmitResult(g2, ShellErrorMessage, made, {}, 0, 0, 0)
        ELSE IF valid = {} THEN SubmitResult(g2, UNDEF, made, {}, 0, 0, 0)
        ELSE IF failAt = "commit" \/ staged = {}
            THEN SubmitResult(g2, ShellErrorMessage, made, {}, 0, 0, 0)
        ELSE IF failAt = "seturl" THEN SubmitResult(g3, ShellErrorMessage, made, staged, 0, 0, 1)
        ELSE IF failAt = "push" THEN SubmitResult(g4, ShellErrorMessage, made, staged, 0, 0, 2)
        ELSE IF ~PostsFollowUp(mrUrl, pr.commentId)
            THEN SubmitResult(g5, UNDEF, made, staged, 1, 0, 3)
        ELSE IF ~tokenOk
            THEN SubmitResult(g5, "GitLab authentication required", made, staged, 1, 0, 3)
        ELSE IF ~Set(e.CI_PROJECT_ID)
            THEN SubmitResult(g5, "GitLab project ID is required (CI_PROJECT_ID)",
                              made, staged, 1, 0, 3)
        ELSE IF failAt = "comment"
            THEN SubmitResult(g5, "createComment failed", made, staged, 1, 0, 3)
        ELSE SubmitResult(g5, UNDEF, made, staged, 1, 1, 4)

\* how many lines a transcript has at most
MaxLines == 2

\* The lines of a transcript file, as postClaudeResponse tells them apart
\* (lines 896-931): a JSON record tagged result with its result field ("" when
\* it has none), a JSON record tagged assistant with the texts of its text
\* contents, any other JSON record, a line that is not JSON (longer than 50
\* characters or not), and a blank line.  A line holding a JSON array is a
\* JSON value without a type, like any other record.
TranscriptLines ==
    {[type |-> "result", text |-> t] : t \in {"", "Done."}}
        \cup {[type |-> "assistant", texts |-> f] :
                 f \in {<<>>, <<"">>, <<"Hello">>, <<"World">>}}
        \cup {[type |-> "system"], [type |-> "array"], [type |-> "blank"]}
        \cup {[type |-> "plain", long |-> b] : b \in BOOLEAN}

Transcripts == UNION {[1..n -> TranscriptLines] : n \in 0..MaxLines}

\* a message is the sequence of its non-blank text lines; <<>> is ""
\* tempMessage.trim() of lines 910-918 for the texts of an assistant record
TrimmedTexts(texts) == SelectSeq(texts, LAMBDA t : t # "")

\* the loop of lines 897-932 from line i on, with claudeMessage = msg so far
RECURSIVE ExtractFrom(_, _, _)
ExtractFrom(lines, i, msg) ==
    IF i > Len(lines) THEN msg
    ELSE LET line == lines[i]
         IN  IF line.type = "blank" THEN ExtractFrom(lines, i + 1, msg)
             ELSE IF line.type = "result" /\ line.text # "" THEN <<line.text>>
             ELSE IF line.type = "assistant" /\ Len(line.texts) > 0
                 THEN ExtractFrom(lines, i + 1, TrimmedTexts(line.texts))
             ELSE IF line.type = "plain" /\ msg = <<>> /\ line.long
                 THEN ExtractFrom(lines, i + 1, <<"plain text">>)
             ELSE ExtractFrom(lines, i + 1, msg)

\* claudeMessage at line 934
ExtractMessage(lines) == ExtractFrom(lines, 1, <<>>)

\* a handler that passes the error on to the caller
PostCatchRethrows(error) == error

\* lines 955-958: the catch of postClaudeResponse logs the error and returns;
\* the result is what the caller sees raised (UNDEF: nothing)
PostCatch(error) == UNDEF

\* what one call of postClaudeResponse did: the comments it posted, their
\* text, what it logged as its outcome, and the error its caller sees
PostResult(comments, message, outcome, raised) ==
    [comments |-> comments, message |-> message, outcome |-> outcome, raised |-> raised]

\* postClaudeResponse (lines 847-959).  content: the lines of the first
\* candidate file that exists (<<>>, the empty string, when none does);
\* tokenOk: getToken finds a token; commentOk: the createComment call succeeds.
PostClaudeResponse(e, content, tokenOk, commentOk) ==
    IF content = <<>>
        THEN PostResult(0, <<>>, "Could not find output file", UNDEF)
    ELSE LET claudeMessage == ExtractMessage(content)
         IN  IF claudeMessage = <<>>
                 THEN PostResult(0, <<>>, "No message found in Claude's output", UNDEF)
             ELSE IF ~tokenOk
                 THEN PostResult(0, <<>>, "Error posting Claude's response",
                          PostCatch("GitLab authentication required"))
             ELSE IF ~Set(e.CI_PROJECT_ID)
                 THEN PostResult(0, <<>>, "Error posting Claude's response",
                          PostCatch("GitLab project ID is required (CI_PROJECT_ID)"))
             ELSE IF ~commentOk
                 THEN PostResult(0, <<>>, "Error posting Claude's response",
                          PostCatch("createComment failed"))
             ELSE PostResult(1, claudeMessage, "Posted Claude's response to GitLab", UNDEF)

\* what the transcript of a run of main may be: empty, without a message,
\* with a message
RunTranscripts ==
    {<<>>, <<[type |-> "system"]>>, <<[type |-> "system"], [type |-> "result", text |-> "Done."]>>}

\* the numbers of comments a call of postClaudeResponse may post, whatever
\* the transcript holds and whatever fails in it; found: a candidate file exists
Postings(e, found) ==
    { PostClaudeResponse(e, IF found THEN c ELSE <<>>, tokenOk, commentOk).comments :
        c \in RunTranscripts, tokenOk \in BOOLEAN, commentOk \in BOOLEAN }

\* a dispatch that submits changes of successful executions only
UpdateDispatchOnSuccessOnly(hasChanges) ==
    IF hasChanges /\ executeResult.success THEN "upd_submit" ELSE "upd_post"

\* lines 969-975: which of the two runUpdatePhase awaits
UpdateDispatch(hasChanges) == IF hasChanges THEN "upd_submit" ELSE "upd_post"

\* a catch that reports the phase as done
UpdateFailureSwallowed(message) == PhaseResult(TRUE, UNDEF, Undefined, UNDEF)

\* lines 1069-1075: what the catch of runUpdatePhase returns for an error
UpdateFailure(message) == PhaseResult(FALSE, message, Undefined, UNDEF)

\* control leaves runUpdatePhase with result r
UpdReturns(r) ==
    /\ updateResult' = r
    /\ log' = Append(log, "update_ret")
    /\ pc' = "main_updated"

\* what a call of checkGitStatus may give, whatever succeeds in it
Classifications(e, g) == {CheckGitStatus(e, g, o) : o \in ClassifyOutcomes}

\* what a call of createMergeRequest at instant now may give, whatever
\* CI_MERGE_REQUEST_SOURCE_BRANCH_NAME is and whatever fails in it
Submissions(e, g, pr, now) ==
    { CreateMergeRequest(e, g, pr, src, now, failAt, findOk, resetOk, mrUrl, tokenOk) :
        src \in {UNDEF, WorkBranch}, failAt \in SubmitFaults,
        findOk \in BOOLEAN, resetOk \in BOOLEAN, mrUrl \in BOOLEAN, tokenOk \in BOOLEAN }

\* line 967
UpdClassify ==
    /\ pc = "upd_classify"
    /\ \E out \in Classifications(env, git) :
              /\ git' = out.git
              /\ upd' = [upd EXCEPT !.hasChanges = out.result]
              /\ pc' = UpdateDispatch(out.result)
    /\ fx' = [fx EXCEPT !.classify = @ + 1]
    /\ UNCHANGED <<exec, env, prepareResult, executeResult, updateResult, exitCode, exitStatus,
                   log, files>>

\* an Update phase that goes on to the tracking comment after an error
EndsUpdatePhaseNever(raised) == FALSE

\* lines 965-971 and 1069: the awaited call stands in the try block of
\* runUpdatePhase, so an error it raises leaves the block for the catch
EndsUpdatePhase(raised) == raised # UNDEF

\* line 971, and the catch of lines 1069-1075 when createMergeRequest raises
UpdSubmit ==
    /\ pc = "upd_submit"
    /\ \E out \in Submissions(env, git, prepareResult, 1) :
              /\ git' = out.git
              /\ fx' = [fx EXCEPT !.submit = @ + 1,
                                  !.commits = @ + out.commits,
                                  !.pushes = @ + out.pushes,
                                  !.comments = @ + out.comments]
              /\ upd' = [upd EXCEPT !.invoked = "submit", !.raised = out.raised # UNDEF]
              /\ IF EndsUpdatePhase(out.raised)
                    THEN UpdReturns(UpdateFailure(out.raised))
                    ELSE /\ pc' = "upd_track"
                         /\ UNCHANGED <<updateResult, log>>
    /\ UNCHANGED <<exec, env, prepareResult, executeResult, exitCode, exitStatus, files>>

\* line 974
UpdPost ==
    /\ pc = "upd_post"
    /\ \E fallback \in BOOLEAN :
       \E n \in Postings(env, PosterFile(executeResult, files, fallback) # UNDEF) :
          fx' = [fx EXCEPT !.post = @ + 1, !.comments = @ + n]
    /\ upd' = [upd EXCEPT !.invoked = "post"]
    /\ pc' = "upd_track"
    /\ UNCHANGED <<exec, env, prepareResult, executeResult, updateResult, exitCode, exitStatus,
                   log, git, files>>

----------------------------------------------------------------------------
(* The tracking-comment updater: update-comment-gitlab.ts *)

\* A note body is a sequence of the pieces the updater looks at.
WORKING == "working-marker"      \* the "Claude is working on this..." line
DONE == "success-marker"         \* the "Claude's work is complete" line
FAILED == "failure-marker"       \* the "Claude's work failed" line
TODO == "- [ ] "
CHECKED == "- [x] "
JOBURL == "job-url"              \* the job URL, written out in the body
LINK == "[View job details](job-url)"
ERRORTEXT == "**Error:**"
FOOTER == "execution-footer"

\* String.prototype.replace with a pattern without the g flag: the first match only
RECURSIVE ReplaceFirst(_, _, _)
ReplaceFirst(body, from, to) ==
    IF body = <<>> THEN <<>>
    ELSE IF Head(body) = from THEN <<to>> \o Tail(body)
    ELSE <<Head(body)>> \o ReplaceFirst(Tail(body), from, to)

\* replace with the g flag: every match
ReplaceAll(body, from, to) ==
    [i \in 1..Len(body) |-> IF body[i] = from THEN to ELSE body[i]]

\* finalBody.includes(jobUrl)
IncludesJobUrl(body) == \E i \in 1..Len(body) : body[i] \in {JOBURL, LINK}

\* a status line that always reports success
StatusMessageAlwaysDone(success) == DONE

\* lines 104-106
StatusMessage(success) == IF success THEN DONE ELSE FAILED

\* formatGitLabCommentBody (lines 97-134)
FormatGitLabCommentBody(initialBody, success, errorDetails, executionDetails) ==
    LET statusMessage == StatusMessage(success)
        b1 == ReplaceFirst(initialBody, WORKING, statusMessage)
        b2 == ReplaceAll(b1, TODO, CHECKED)
        b3 == IF ~IncludesJobUrl(b2) THEN Append(b2, LINK) ELSE b2
        b4 == IF Set(errorDetails) THEN Append(b3, ERRORTEXT) ELSE b3
        b5 == IF executionDetails THEN Append(b4, FOOTER) ELSE b4
    IN  b5

NoEdit == <<>>

\* an updater that prefers the issue to the merge request
UpdaterResourceIssueFirst(mrIid, issueIid) ==
    IF Set(issueIid) THEN "issue" ELSE "merge_request"

\* lines 195-215 and 244-252: the notes of the merge request are fetched and
\* edited when CI_MERGE_REQUEST_IID is set, those of the issue otherwise
UpdaterResource(mrIid, issueIid) == IF Set(mrIid) THEN "merge_request" ELSE "issue"

\* an updater that fails its job when the update fails
CatchExitCodeFailing(message) == 1

\* lines 261-267: the catch of run() warns and calls process.exit(0)
CatchExitCode(message) == 0

\* what one run of the updater did: its exit code, the warning it logged
\* (UNDEF: none), the notes it asked for, the edits it asked for, and the
\* edits GitLab made
UpdaterResult(exit, warning, fetches, editCalls, edits) ==
    [exit |-> exit, warning |-> warning, fetches |-> fetches,
     editCalls |-> editCalls, edits |-> edits]

\* run() ends in its catch with the error message
UpdaterFails(message, fetches, editCalls) ==
    UpdaterResult(CatchExitCode(message), message, fetches, editCalls, NoEdit)

\* the message the inner catch of lines 254-258 wraps an error in
FetchOrUpdateFailed == "Failed to fetch or update comment"

\* run() of the updater (lines 136-269) in the environment cenv.
\* note: whether the resource has a note whose id is the comment id, and its
\* body; fetchOk / editOk: the API calls succeed;
\* details: getExecutionDetails found cost and duration.
UpdaterProcess(cenv, token, note, fetchOk, editOk, details) ==
    LET commentId       == ParseInt(cenv.CLAUDE_COMMENT_ID)
        mrIid           == cenv.CI_MERGE_REQUEST_IID
        issueIid        == IF Set(cenv.CI_ISSUE_IID) THEN cenv.CI_ISSUE_IID
                           ELSE cenv.CLAUDE_RESOURCE_ID
        actionSucceeded == cenv.PREPARE_SUCCESS # "false" /\ cenv.CLAUDE_SUCCESS # "false"
        resource        == UpdaterResource(mrIid, issueIid)
        iid             == IF resource = "merge_request" THEN mrIid ELSE issueIid
        fetch           == <<[resource |-> resource, iid |-> iid]>>
        edit            == << [ resource |-> resource,
                                iid      |-> iid,
                                note     |-> commentId,
                                body     |-> FormatGitLabCommentBody(
                                                note.body, actionSucceeded,
                                                cenv.PREPARE_ERROR, details) ] >>
    IN  IF commentId = NaN
            THEN UpdaterFails("CLAUDE_COMMENT_ID env var is not a valid number.", <<>>, <<>>)
        ELSE IF ~Set(cenv.CI_PROJECT_ID)
            THEN UpdaterFails("CI_PROJECT_ID is required but not set", <<>>, <<>>)
        ELSE IF ~Set(mrIid) /\ ~Set(issueIid)
            THEN UpdaterFails("Neither CI_MERGE_REQUEST_IID nor CI_ISSUE_IID is set",
                              <<>>, <<>>)
        ELSE IF ~token
            THEN UpdaterFails("GitLab token is required but not set", <<>>, <<>>)
        ELSE IF ~fetchOk THEN UpdaterFails(FetchOrUpdateFailed, fetch, <<>>)
        ELSE IF ~note.exists THEN UpdaterFails(FetchOrUpdateFailed, fetch, <<>>)
        ELSE IF ~editOk THEN UpdaterFails(FetchOrUpdateFailed, fetch, edit)
        ELSE UpdaterResult(0, UNDEF, fetch, edit, edit)

\* the edits GitLab made in a run of the updater (none or one)
UpdaterRun(cenv, token, note, fetchOk, editOk, details) ==
    UpdaterProcess(cenv, token, note, fetchOk, editOk, details).edits

----------------------------------------------------------------------------
(* Phase 6, second half: the tracking comment (lines 977-1075) *)

\* longest tracking-note body that is enumerated
MaxBodyLen == 1

\* the note the updater finds under the comment id, if any
TrackingNotes ==
    {[exists |-> FALSE, body |-> <<>>]}
        \cup {[exists |-> TRUE, body |-> b] : b \in SeqsUpTo({WORKING, JOBURL}, MaxBodyLen)}

\* lines 994-1006: OUTPUT_FILE for the update script
TrackOutputFile(er, f) ==
    IF Set(er.outputFile) THEN er.outputFile
    ELSE IF f.json THEN JsonFile
    ELSE IF f.txt THEN TxtFile
    ELSE JsonFile

\* an update script that is always told the assistant succeeded
ClaudeSuccessAlwaysTrue(er) == "true"

\* line 1012
ClaudeSuccessText(er) == IF er.success THEN "true" ELSE "false"

\* lines 1009-1038: the environment of the update script.  issueIid and
\* prepareError are the job's own CI_ISSUE_IID and PREPARE_ERROR.
UpdateScriptEnv(e, pr, er, f, issueIid, prepareError) ==
    [ CLAUDE_COMMENT_ID    |-> NumToString(pr.commentId.v),
      CLAUDE_SUCCESS       |-> ClaudeSuccessText(er),
      PREPARE_SUCCESS      |-> IF pr.success THEN "true" ELSE "false",
      OUTPUT_FILE          |-> TrackOutputFile(er, f),
      PREPARE_ERROR        |-> prepareError,
      CI_PROJECT_ID        |-> e.CI_PROJECT_ID,
      CLAUDE_RESOURCE_ID   |-> e.CLAUDE_RESOURCE_ID,
      CI_ISSUE_IID         |-> IF e.CLAUDE_RESOURCE_TYPE = "issue" /\ Set(e.CLAUDE_RESOURCE_ID)
                                  THEN e.CLAUDE_RESOURCE_ID ELSE issueIid,
      CI_MERGE_REQUEST_IID |-> IF e.CLAUDE_RESOURCE_TYPE = "merge_request"
                                     /\ Set(e.CLAUDE_RESOURCE_ID)
                                  THEN e.CLAUDE_RESOURCE_ID ELSE e.CI_MERGE_REQUEST_IID ]

\* lines 1011-1014: what runUpdatePhase itself hands to the update script
Handed(cenv) ==
    [ CLAUDE_COMMENT_ID |-> cenv.CLAUDE_COMMENT_ID,
      CLAUDE_SUCCESS    |-> cenv.CLAUDE_SUCCESS,
      PREPARE_SUCCESS   |-> cenv.PREPARE_SUCCESS,
      OUTPUT_FILE       |-> cenv.OUTPUT_FILE ]

\* lines 1056-1068: the result for the exit code of the update script
TrackResult(exit) ==
    IF exit # 0
        THEN PhaseResult(FALSE, "Failed to update comment (non-critical)", Undefined, UNDEF)
    ELSE PhaseResult(TRUE, UNDEF, Undefined, UNDEF)

\* a test for "some number" instead of a truthy one
SkipsTrackingUnlessNumber(pr) == pr.commentId.t # "number"

\* lines 977-981: the update script is started only for a truthy comment id
SkipsTracking(pr) == ~Truthy(pr.commentId)

\* what the GitLab API and the token variables give one run of the update
\* script: no token, a failing fetch, a resource without the note, or the note
\* (with a failing or a succeeding edit)
UpdaterWorlds ==
    {[token |-> FALSE, fetchOk |-> TRUE, editOk |-> TRUE, note |-> n] :
        n \in {x \in TrackingNotes : ~x.exists}}
    \cup {[token |-> TRUE, fetchOk |-> FALSE, editOk |-> TRUE, note |-> n] :
        n \in {x \in TrackingNotes : ~x.exists}}
    \cup [token : {TRUE}, fetchOk : {TRUE}, editOk : BOOLEAN, note : TrackingNotes]

UpdTrack ==
    /\ pc = "upd_track"
    /\ IF SkipsTracking(prepareResult)
          THEN /\ UpdReturns(PhaseResult(TRUE, UNDEF, Undefined, UNDEF))
               /\ fx' = fx
          ELSE \E crash \in BOOLEAN :
                 IF crash
                    THEN /\ UpdReturns(PhaseResult(FALSE, ShellErrorMessage, Undefined, UNDEF))
                         /\ fx' = [fx EXCEPT !.updater = Append(@, Handed(
                                      UpdateScriptEnv(env, prepareResult, executeResult,
                                                      files, UNDEF, UNDEF)))]
                    ELSE \E issueIid \in {UNDEF, "6"}, prepareError \in {UNDEF, "boom"},
                            details \in BOOLEAN, w \in UpdaterWorlds :
                           /\ LET cenv == UpdateScriptEnv(env, prepareResult, executeResult,
                                                          files, issueIid, prepareError)
                              IN  /\ details => DetailsFile(cenv.OUTPUT_FILE, files) # UNDEF
                                  /\ fx' = [fx EXCEPT
                                           !.updater = Append(@, Handed(cenv)),
                                           !.edits = @ \o UpdaterRun(cenv, w.token, w.note,
                                                                     w.fetchOk, w.editOk,
                                                                     details)]
                           /\ UpdReturns(TrackResult(0))
    /\ UNCHANGED <<exec, env, prepareResult, executeResult, exitCode, exitStatus, git, files, upd>>

----------------------------------------------------------------------------
(* main, lines 1107-1130 *)

\* a main that fails the job for a failed update
ExitCodeFlippedByUpdate(code, ur) == IF ~ur.success THEN 1 ELSE code

\* lines 1107-1110 (1119-1121 in the handler): a failed update is only logged
ExitCodeAfterUpdate(code, ur) == code

\* runUpdatePhase has returned to main, or to main's fatal-error handler:
\* lines 1107-1110 or 1119-1121, then line 1129
MainAfterUpdate ==
    /\ pc = "main_updated"
    /\ exitCode' = ExitCodeAfterUpdate(exitCode, updateResult)
    /\ Exits(exitCode')
    /\ UNCHANGED <<exec, env, prepareResult, executeResult, updateResult, log, git, files, fx, upd>>

\* lines 1111-1129: the fatal-error handler; without a comment id it goes
\* straight to line 1129
MainCatch ==
    /\ pc = "catch"
    /\ exitCode' = 1
    /\ IF Truthy(prepareResult.commentId)
          THEN /\ UpdateStarts("catch")
               /\ UNCHANGED exitStatus
          ELSE /\ Exits(exitCode')
               /\ UNCHANGED <<log, upd>>
    /\ UNCHANGED <<exec, env, prepareResult, executeResult, updateResult, git, files, fx>>

----------------------------------------------------------------------------
Next ==
    \/ RunPreparePhase
    \/ MainAfterPrepare
    \/ ExecSetupBranch
    \/ ExecInstall
    \/ ExecInstallDeps
    \/ ExecRunClaude
    \/ MainAfterExecute
    \/ UpdClassify
    \/ UpdSubmit
    \/ UpdPost
    \/ UpdTrack
    \/ MainAfterUpdate
    \/ MainCatch

Spec == Init /\ [][Next]_vars

----------------------------------------------------------------------------
(* Properties of main *)

Logged(ev) == \E i \in 1..Len(log) : log[i] = ev

IsPrefix(a, b) == Len(a) <= Len(b) /\ a = SubSeq(b, 1, Len(a))

PhaseEvents == <<"prepare", "prepare_ret", "execute", "execute_ret", "update", "update_ret">>

Exited == pc = "exited"

\* runExecutePhase has returned
ExecuteReturned == Logged("execute_ret")

\* runUpdatePhase has returned
UpdateReturned == Logged("update_ret")

\* the process ended with a non-zero exit code
ExitedNonZero == Exited /\ exitStatus \notin {0, NoExit}

\* C1: the phases of a run occur in the order Prepare, Execute, Update.
\* Each phase starts only once the one before has returned, Execute starts
\* only after a successful Prepare, the step main takes when Execute has
\* returned is the start of Update, whether Execute succeeded or failed, and
\* a run that ends after Execute was started has been through Update.
PhasesInOrder ==
    /\ [](/\ IsPrefix(log, PhaseEvents)
          /\ Logged("execute") => prepareResult.success
          /\ Logged("update") => ExecuteReturned
          /\ (Exited /\ Logged("execute")) => UpdateReturned)
    /\ [][ExecuteReturned /\ ~Logged("update")
             => (pc' = "upd_classify" /\ log' = Append(log, "update"))]_vars

\* a run has ended whose Execute phase failed and whose Update phase ran
PhasesInOrderWitness ==
    /\ Exited
    /\ log = PhaseEvents
    /\ ~executeResult.success

\* C2: when the assistant exits non-zero, or another step of the Execute phase
\* fails, the Execute PhaseResult is a failure with an error text, main's exit
\* code is non-zero from then on, and the process ends with a non-zero exit
\* code whether the Update phase succeeds or fails.
ExecuteFailurePropagates ==
    exec.fault # UNDEF =>
        /\ ~executeResult.success
        /\ Set(executeResult.error)
        /\ pc \in {"upd_classify", "upd_submit", "upd_post", "upd_track", "main_updated"}
              => exitCode # 0
        /\ Exited => ExitedNonZero

\* the assistant exited non-zero, the Update phase failed as well, the
\* process has ended
ExecuteFailurePropagatesWitness ==
    /\ Exited
    /\ exec.fault = "claude"
    /\ UpdateReturned
    /\ ~updateResult.success
    /\ exitStatus = 1

\* C3: when Prepare and Execute both succeeded the process ends with exit
\* code 0, whatever the Update phase did.
UpdateNeverFailsTheJob ==
    (Exited /\ prepareResult.success /\ executeResult.success) => exitStatus = 0

\* Prepare and Execute succeeded, the Change Submitter raised and the Update
\* phase returned a failure, the process has ended
UpdateNeverFailsTheJobWitness ==
    /\ Exited
    /\ prepareResult.success
    /\ executeResult.success
    /\ upd.raised
    /\ ~updateResult.success

\* Prepare has returned and reports that there is no trigger
NoTrigger == pc # "prepare" /\ prepareResult.error = NoTriggerError

\* C4: when Prepare reports that there is no trigger, main goes straight to
\* exit code 0: neither Execute nor Update is started, and no branch set-up,
\* assistant run, commit, push, comment or comment edit happens.
NoTriggerAborts ==
    NoTrigger =>
        /\ pc \in {"main_prepared", "exited"}
        /\ log = <<"prepare", "prepare_ret">>
        /\ fx = NoEffects
        /\ Exited => exitStatus = 0

\* a run without a trigger has ended
NoTriggerAbortsWitness ==
    /\ NoTrigger
    /\ Exited
    /\ exitStatus = 0

\* the Execute phase failed and Prepare had read a comment id that
\* runUpdatePhase takes for one (line 978)
FailedWithCommentId == exec.fault # UNDEF /\ Truthy(prepareResult.commentId)

InBody(piece, body) == \E i \in 1..Len(body) : body[i] = piece

PrepareFailed ==
    pc # "prepare" /\ ~prepareResult.success /\ prepareResult.error # NoTriggerError

\* C7: when Prepare fails for another reason than a missing trigger, the
\* Execute phase is never started (no branch set-up, no assistant run) and the
\* process ends with a non-zero exit code.
PrepareFailureStops ==
    PrepareFailed =>
        /\ ~Logged("execute")
        /\ pc \in {"main_prepared", "catch", "upd_classify", "upd_submit", "upd_post",
                   "upd_track", "main_updated", "exited"}
        /\ fx.reconcile = 0
        /\ fx.assistant = 0
        /\ Exited => ExitedNonZero

\* prepare.ts failed and the run has ended with exit code 1
PrepareFailureStopsWitness ==
    /\ PrepareFailed
    /\ prepareResult.error = ShellErrorMessage
    /\ Exited
    /\ exitStatus = 1

\* runUpdatePhase is past lines 969-975
Dispatched ==
    \/ pc \in {"upd_track", "main_updated"}
    \/ Exited /\ upd.caller # "none"

\* C8: every Update phase calls exactly one of createMergeRequest and
\* postClaudeResponse: createMergeRequest if and only if checkGitStatus
\* reported changes, for failed executions as for successful ones.
ExactlyOneOfSubmitAndPost ==
    /\ pc = "upd_classify" => (fx.submit = 0 /\ fx.post = 0)
    /\ pc = "upd_submit" => (upd.hasChanges /\ fx.submit = 0 /\ fx.post = 0)
    /\ pc = "upd_post" => (~upd.hasChanges /\ fx.submit = 0 /\ fx.post = 0)
    /\ Dispatched =>
          /\ fx.classify = 1
          /\ fx.submit + fx.post = 1
          /\ fx.submit = 1 <=> upd.hasChanges
          /\ upd.invoked = (IF upd.hasChanges THEN "submit" ELSE "post")

\* the Execute phase failed, checkGitStatus reported changes, and the Update
\* phase has called createMergeRequest and not postClaudeResponse
ExactlyOneOfSubmitAndPostWitness ==
    /\ pc = "main_updated"
    /\ ~executeResult.success
    /\ upd.hasChanges
    /\ fx.submit = 1
    /\ fx.post = 0

\* runUpdatePhase has returned in a run without a comment id
UpdatedWithoutCommentId ==
    /\ UpdateReturned
    /\ ~Truthy(prepareResult.commentId)

\* C9 as stated: an Update phase without a comment id returns success and
\* does not start the update script, whatever checkGitStatus reported and
\* whatever createMergeRequest or postClaudeResponse did.
NoCommentIdAlwaysSucceeds ==
    UpdatedWithoutCommentId =>
        /\ updateResult.success
        /\ fx.updater = <<>>
        /\ fx.edits = <<>>

\* C9, amended: an Update phase without a comment id never starts the update
\* script and edits no note; it returns success unless createMergeRequest
\* raised, and then it returns a failure with the error text.
NoCommentIdSkipsTracking ==
    UpdatedWithoutCommentId =>
        /\ fx.updater = <<>>
        /\ fx.edits = <<>>
        /\ updateResult.success <=> ~upd.raised
        /\ upd.raised => (upd.invoked = "submit" /\ Set(updateResult.error))

\* no comment id, createMergeRequest pushed a commit, and the Update phase
\* returned success without starting the update script
NoCommentIdSkipsTrackingWitness ==
    /\ UpdatedWithoutCommentId
    /\ prepareResult.success
    /\ upd.invoked = "submit"
    /\ fx.pushes = 1
    /\ updateResult.success
    /\ fx.updater = <<>>

\* Prepare returned a number as the comment id
CommentIdProduced == pc # "prepare" /\ prepareResult.commentId.t = "number"

----------------------------------------------------------------------------
(* Properties of the branch set-up of runExecutePhase *)

\* runExecutePhase is past its branch set-up and has not launched base-action
BeforeAssistant == pc \in {"exec_install", "exec_deps", "exec_run"}

----------------------------------------------------------------------------
(* The branch set-up of runExecutePhase (lines 370-402) on its own:        *)
(* ReconcileSpec calls it repeatedly with one target on one repository.    *)

\* a job that GitLab CI and the webhook configured completely
ConfiguredEnv ==
    [ CI_PROJECT_DIR       |-> "/builds/group/project",
      CI_PROJECT_PATH      |-> "group/project",
      CLAUDE_RESOURCE_TYPE |-> "merge_request",
      CLAUDE_RESOURCE_ID   |-> "5",
      CI_MERGE_REQUEST_IID |-> "8",
      CI_PROJECT_ID        |-> "42" ]

\* everything but pc, log, git and exec, as main has it before its first phase
MainNotStarted ==
    /\ env = ConfiguredEnv
    /\ prepareResult = PhaseResult(FALSE, UNDEF, Undefined, UNDEF)
    /\ executeResult = PhaseResult(FALSE, UNDEF, Undefined, UNDEF)
    /\ updateResult = PhaseResult(FALSE, UNDEF, Undefined, UNDEF)
    /\ exitCode = 0
    /\ exitStatus = NoExit
    /\ files = [json |-> FALSE, txt |-> FALSE]
    /\ fx = NoEffects
    /\ upd = NoUpdate

\* how many times in a row the branch set-up is called
MaxReconciles == 2

\* what `git rev-parse --abbrev-ref HEAD` prints for a detached HEAD, the
\* state a GitLab runner leaves the checkout in
DetachedHead == "HEAD"

\* repositories the branch set-up can find
ReconcileGitStates ==
    { g \in [cur : {MainBranch, WorkBranch, DetachedHead},
             locals : SUBSET {MainBranch, WorkBranch},
             remote : SUBSET {MainBranch, WorkBranch},
             origin : {"expected"}, tree : {{}}] :
        g.cur # DetachedHead => g.cur \in g.locals }

ReconcileInit ==
    /\ pc = "reconcile"
    /\ git \in ReconcileGitStates
    /\ exec = [fault |-> UNDEF, target |-> WorkBranch]
    /\ log = <<>>
    /\ MainNotStarted

\* one call of lines 370-402; log keeps, per call, the repository before and
\* after it and the error that left it
Reconcile ==
    /\ pc = "reconcile"
    /\ Len(log) < MaxReconciles
    /\ \E fetchOk, checkoutOk, createOk \in BOOLEAN :
         \E readBack \in RevParseOutputs(
                 SetupBranch(git, exec.target, fetchOk, checkoutOk, createOk,
                             exec.target).git.cur) :
            LET out == SetupBranch(git, exec.target, fetchOk, checkoutOk, createOk, readBack)
            IN  /\ git' = out.git
                /\ log' = Append(log, [before |-> git, after |-> out.git,
                                       threw |-> out.threw, fetched |-> out.fetched,
                                       checked |-> out.checked, created |-> out.created,
                                       ran |-> out.ran])
                /\ exec' = [exec EXCEPT !.fault = IF out.threw # UNDEF THEN "branch"
                                                  ELSE UNDEF]
    /\ UNCHANGED <<pc, env, prepareResult, executeResult, updateResult, exitCode,
                   exitStatus, files, fx, upd>>

ReconcileNext == Reconcile

ReconcileSpec == ReconcileInit /\ [][ReconcileNext]_vars

\* C12: a call of the branch set-up that finds the target branch checked out
\* raises no error and leaves the current branch and the local branches as
\* they were.
ReconcilerIdempotent ==
    \A i \in 1..Len(log) :
        log[i].before.cur = exec.target =>
            /\ log[i].threw = UNDEF
            /\ log[i].after.cur = log[i].before.cur
            /\ log[i].after.locals = log[i].before.locals

\* C29: in every run of the branch set-up, when the fetch of the target or
\* the checkout after it fails, the local creation of the branch is run next,
\* and only then; when the creation succeeds the target is checked out, and
\* when it fails too the set-up leaves with 'Failed to setup working branch',
\* the branch checked out being the one before, and the Execute phase is left
\* through its catch.
FallbackCreatesOrFails ==
    \A i \in 1..Len(log) :
        LET run == log[i]
            fallback == ~(run.fetched /\ run.checked)
        IN  /\ fallback <=> (run.ran[Len(run.ran)] = "create")
            /\ run.ran[1] = "fetch"
            /\ (fallback /\ run.created) =>
                  /\ run.after.cur = exec.target
                  /\ exec.target \in run.after.locals
                  /\ run.threw # "Failed to setup working branch"
            /\ (fallback /\ ~run.created) =>
                  /\ run.threw = "Failed to setup working branch"
                  /\ run.after.cur = run.before.cur
                  /\ i = Len(log) => exec.fault = "branch"
            /\ ~fallback => run.threw # "Failed to setup working branch"

\* the fetch works, the checkout after it fails and so does the creation of
\* the branch that the fetch has made: the set-up gives up
FallbackCreatesOrFailsWitness ==
    /\ Len(log) >= 1
    /\ log[1].fetched /\ ~log[1].checked /\ ~log[1].created
    /\ log[1].ran = <<"fetch", "checkout", "create">>
    /\ log[1].threw = "Failed to setup working branch"
    /\ exec.target \in log[1].after.locals

\* the fetch fails, the branch is created locally and checked out
FallbackCreatedBranch ==
    /\ Len(log) >= 1
    /\ ~log[1].fetched /\ log[1].created
    /\ log[1].ran = <<"fetch", "create">>
    /\ log[1].threw = UNDEF
    /\ log[1].after.cur = exec.target

----------------------------------------------------------------------------
(* Properties of checkGitStatus, createMergeRequest and postClaudeResponse *)

\* origin is not the project CI_PROJECT_PATH names
IdentityMismatch == Set(env.CI_PROJECT_PATH) /\ git.origin # "expected"

\* C13: a commit or push is made only after origin was compared with the
\* expected project and found to be it, and an Update phase that finds
\* another origin stops with a failure: it posts no response and does not go
\* on to the tracking comment.
MutationsVerifiedMismatchFatal ==
    /\ (fx.commits > 0 \/ fx.pushes > 0)
          => (Set(env.CI_PROJECT_PATH) /\ git.origin = "expected")
    /\ (IdentityMismatch /\ Dispatched) =>
          /\ fx.post = 0
          /\ fx.comments = 0
          /\ fx.updater = <<>>
    /\ (IdentityMismatch /\ UpdateReturned) => ~updateResult.success

\* the messages of the errors createMergeRequest throws
SubmitErrors ==
    {"CI_PROJECT_DIR is not set!", "Wrong repository!", ShellErrorMessage,
     "GitLab authentication required",
     "GitLab project ID is required (CI_PROJECT_ID)", "createComment failed"}

\* createMergeRequest re-threw an error (line 844)
SubmitRaised == upd.invoked = "submit" /\ upd.raised

\* C17: when createMergeRequest throws, runUpdatePhase returns to main a
\* result with success false and the error's message, main's fatal-error
\* handler is not entered, and main's next step is the exit of line 1129 with
\* the exit code the Execute phase decided.
SubmitFailureSurfaced ==
    /\ [](SubmitRaised =>
            /\ pc \in {"main_updated", "exited"}
            /\ UpdateReturned
            /\ ~updateResult.success
            /\ updateResult.error \in SubmitErrors
            /\ upd.caller = "main"
            /\ Exited => exitStatus = IF executeResult.success THEN 0 ELSE 1)
    /\ [][(SubmitRaised /\ ~Exited) => pc' = "exited"]_vars

SubmitFailureSurfacedWitness ==
    /\ SubmitRaised
    /\ Exited
    /\ exitStatus = 0
    /\ updateResult.error = "createComment failed"
    /\ fx.pushes = 1

\* main's fatal-error handler (lines 1111-1126) was entered in this run
HandlerEntered ==
    \/ pc = "catch"
    \/ /\ ~prepareResult.success
       /\ prepareResult.error # NoTriggerError
       /\ pc \notin {"prepare", "main_prepared"}

\* C32: whenever main's fatal-error handler is entered, prepareResult holds a
\* failure without a commentId and neither Execute nor Update has started;
\* the handler's call of runUpdatePhase (line 1117) is never made, the job
\* exits with code 1, and runUpdatePhase is called at most once in a run.
EmergencyUpdateNeverRuns ==
    /\ HandlerEntered =>
          /\ ~prepareResult.success
          /\ prepareResult.commentId = Undefined
          /\ ~Logged("execute") /\ ~Logged("update")
          /\ fx = NoEffects
          /\ pc \in {"catch", "exited"}
          /\ Exited => exitStatus = 1
    /\ upd.caller # "catch"
    /\ Cardinality({i \in 1..Len(log) : log[i] = "update"}) <= 1
    /\ fx.classify <= 1
    /\ Logged("update") => (prepareResult.success /\ upd.caller = "main")

\* prepare.ts failed, the handler was entered and the job exited with code 1
\* without an Update phase
EmergencyUpdateNeverRunsWitness ==
    /\ HandlerEntered
    /\ Exited
    /\ exitStatus = 1
    /\ prepareResult.error = ShellErrorMessage
    /\ ~Logged("update")

\* the update script was started in this run
TrackingStarted == fx.updater # <<>>

\* C31: the update script is started only after the call of
\* createMergeRequest or postClaudeResponse of the same Update phase has
\* returned without an error, and at most once; when createMergeRequest
\* raises, the update script is never started, no note is edited, and what
\* runUpdatePhase returns is a failure.
TrackingAfterDispatch ==
    /\ TrackingStarted =>
          /\ upd.invoked \in {"submit", "post"}
          /\ ~upd.raised
          /\ fx.classify = 1
          /\ fx.submit + fx.post = 1
          /\ Len(fx.updater) = 1
          /\ Truthy(prepareResult.commentId)
    /\ pc = "upd_track" => (upd.invoked \in {"submit", "post"} /\ ~upd.raised)
    /\ upd.raised =>
          /\ upd.invoked = "submit"
          /\ ~TrackingStarted
          /\ fx.edits = <<>>
          /\ UpdateReturned /\ ~updateResult.success

\* createMergeRequest pushed and returned, and the update script then ran
TrackingAfterDispatchWitness ==
    /\ TrackingStarted
    /\ upd.invoked = "submit"
    /\ fx.pushes = 1
    /\ ~upd.raised
    /\ Len(fx.edits) = 1

\* C22: when claude-execution-output.json and output.txt both exist, the
\* file runExecutePhase hands on, the file runUpdatePhase gives the update
\* script as OUTPUT_FILE, the file getExecutionDetails reads for it and the
\* file postClaudeResponse reads are all claude-execution-output.json.
JsonArrayPreferred ==
    (files.json /\ files.txt) =>
        /\ Set(executeResult.outputFile) => executeResult.outputFile = JsonFile
        /\ TrackOutputFile(executeResult, files) = JsonFile
        /\ \A i \in 1..Len(fx.updater) :
              /\ fx.updater[i].OUTPUT_FILE = JsonFile
              /\ DetailsFile(fx.updater[i].OUTPUT_FILE, files) = JsonFile
        /\ \A fallback \in BOOLEAN : PosterFile(executeResult, files, fallback) = JsonFile

\* both files exist, the response was posted and the update script started
JsonArrayPreferredWitness ==
    /\ files.json /\ files.txt
    /\ executeResult.outputFile = JsonFile
    /\ fx.post = 1
    /\ Len(fx.updater) = 1
    /\ Exited

----------------------------------------------------------------------------
(* checkGitStatus and createMergeRequest on their own: TreeSpec calls      *)
(* checkGitStatus or not, and then createMergeRequest a few times in a row, *)
(* on one repository whose working tree holds any of the status entries.   *)

\* how many status entries the working tree starts with
MaxTree == 2

\* how many calls are made in a row
MaxCalls == 2

\* the instants Date.now() may return
Instants == {1, 2}

\* the configured job, with or without the source branch GitLab CI names in
\* a merge-request pipeline (line 710)
TreeEnvs ==
    { ConfiguredEnv @@ [CI_MERGE_REQUEST_SOURCE_BRANCH_NAME |-> src] :
        src \in {UNDEF, WorkBranch} }

\* the repository after the assistant ran
TreeGitStates ==
    { g \in [cur : {MainBranch, WorkBranch}, locals : SUBSET {MainBranch, WorkBranch},
             remote : {{MainBranch}}, origin : {"expected", "other"},
             tree : SUBSET StatusEntries] :
        /\ g.locals = {MainBranch, g.cur}
        /\ Cardinality(g.tree) <= MaxTree }

TreeInit ==
    /\ pc = "tree"
    /\ env \in TreeEnvs
    /\ git \in TreeGitStates
    /\ log = <<>>
    /\ exec = NoExecute
    /\ prepareResult = PhaseResult(TRUE, UNDEF, Num(7), UNDEF)
    /\ executeResult = PhaseResult(FALSE, UNDEF, Undefined, UNDEF)
    /\ updateResult = PhaseResult(FALSE, UNDEF, Undefined, UNDEF)
    /\ exitCode = 0
    /\ exitStatus = NoExit
    /\ files = [json |-> FALSE, txt |-> FALSE]
    /\ fx = NoEffects
    /\ upd = NoUpdate

\* the instant of the latest call of createMergeRequest (0 before the first)
LastInstant ==
    LET at == {log[i].now : i \in 1..Len(log)} \cup {0}
    IN  CHOOSE n \in at : \A m \in at : m <= n

\* one call of checkGitStatus, which comes first as in runUpdatePhase; log
\* keeps, per call, the repository before it, what failed and what the call gave
TreeClassify ==
    /\ pc = "tree"
    /\ log = <<>>
    /\ \E o \in ClassifyOutcomes :
          LET out == CheckGitStatus(env, git, o)
          IN  /\ git' = out.git
              /\ log' = Append(log, [op |-> "classify", before |-> git, now |-> 0,
                                     clean |-> o.chdirOk /\ o.remoteOk /\ o.statusOk,
                                     out |-> out])
    /\ UNCHANGED <<pc, env, prepareResult, executeResult, updateResult, exitCode,
                   exitStatus, files, fx, exec, upd>>

\* the calls of createMergeRequest that can come next, as log keeps them
TreeSubmissions ==
    { [op |-> "submit", before |-> git, now |-> now, clean |-> failAt = "none",
       out |-> CreateMergeRequest(env, git, prepareResult,
                                  env.CI_MERGE_REQUEST_SOURCE_BRANCH_NAME, now,
                                  failAt, findOk, resetOk, mrUrl, tokenOk)] :
        now \in {n \in Instants : n >= LastInstant}, failAt \in SubmitFaults,
        findOk \in BOOLEAN, resetOk \in BOOLEAN, mrUrl \in BOOLEAN, tokenOk \in BOOLEAN }

\* one call of createMergeRequest
TreeSubmit ==
    /\ pc = "tree"
    /\ Len(log) < MaxCalls
    /\ \E call \in TreeSubmissions :
              /\ git' = call.out.git
              /\ log' = Append(log, call)
    /\ UNCHANGED <<pc, env, prepareResult, executeResult, updateResult, exitCode,
                   exitStatus, files, fx, exec, upd>>

TreeNext == TreeClassify \/ TreeSubmit

TreeSpec == TreeInit /\ [][TreeNext]_vars

\* the paths the specification calls noise: temp-file patterns, the raw
\* transcript output.txt, tool-scoped hidden paths
NoisePath(p) == p \in {"debug.log", "output.txt", ".claude/settings.json"}

\* call i is a call of createMergeRequest in which no command failed on its own
\* and the origin is the expected one
SubmitRan(i) ==
    /\ log[i].op = "submit"
    /\ log[i].clean
    /\ log[i].before.origin = "expected"

\* C14: a call of createMergeRequest on a working tree in which every entry is
\* a noise path makes no commit and no push, and returns without an error.
NoCommitOfNoiseOnly ==
    \A i \in 1..Len(log) :
        (SubmitRan(i) /\ \A p \in log[i].before.tree : NoisePath(p.path)) =>
            /\ log[i].out.committed = {}
            /\ log[i].out.pushes = 0
            /\ log[i].out.raised = UNDEF

\* call i is a call of checkGitStatus in which no git command failed and the
\* origin is the expected one
ClassifyRan(i) ==
    /\ log[i].op = "classify"
    /\ log[i].clean
    /\ log[i].before.origin = "expected"

\* C15: when every status entry checkGitStatus reads is a noise path it
\* answers 'no substantive change' and runUpdatePhase goes on to
\* postClaudeResponse; when one entry is not a noise path it answers
\* 'substantive change'.
NoiseOnlyIsNoChange ==
    \A i \in 1..Len(log) :
        ClassifyRan(i) =>
            IF \A p \in log[i].out.git.tree : NoisePath(p.path)
                THEN /\ ~log[i].out.result
                     /\ UpdateDispatch(log[i].out.result) = "upd_post"
                ELSE log[i].out.result

\* calls i and i+1 are calls of createMergeRequest, the first one pushed and
\* returned, and the second one finds nothing changed and no command failing
Reentered(i) ==
    /\ log[i].op = "submit"
    /\ log[i].out.raised = UNDEF
    /\ log[i].out.pushes = 1
    /\ log[i + 1].op = "submit"
    /\ log[i + 1].clean
    /\ log[i + 1].before.tree = {}

\* C16 as stated: createMergeRequest creates a branch only when the branch
\* checked out is not the computed one, and a second call after a successful
\* one, with nothing changed, creates no branch, commits and pushes nothing and
\* raises no error.
SubmitterIdempotent ==
    /\ \A i \in 1..Len(log) :
          (log[i].op = "submit" /\ log[i].out.created # UNDEF) =>
              log[i].before.cur # log[i].out.created
    /\ \A i \in 1..(Len(log) - 1) :
          Reentered(i) =>
              /\ log[i + 1].out.created = UNDEF
              /\ log[i + 1].out.committed = {}
              /\ log[i + 1].out.pushes = 0
              /\ log[i + 1].out.raised = UNDEF

\* C16, amended: createMergeRequest creates a branch only when the branch
\* checked out is not the computed one; a second call after a successful one,
\* with nothing changed, commits and pushes nothing and raises no error, and
\* creates no branch when the branch name is CI_MERGE_REQUEST_SOURCE_BRANCH_NAME;
\* with a generated name it creates the branch of the later instant.
SubmitterReentry ==
    /\ \A i \in 1..Len(log) :
          (log[i].op = "submit" /\ log[i].out.created # UNDEF) =>
              log[i].before.cur # log[i].out.created
    /\ \A i \in 1..(Len(log) - 1) :
          Reentered(i) =>
              /\ log[i + 1].out.committed = {}
              /\ log[i + 1].out.pushes = 0
              /\ log[i + 1].out.raised = UNDEF
              /\ Set(env.CI_MERGE_REQUEST_SOURCE_BRANCH_NAME) =>
                     log[i + 1].out.created = UNDEF
              /\ ~Set(env.CI_MERGE_REQUEST_SOURCE_BRANCH_NAME) =>
                     log[i + 1].out.created =
                         IF log[i + 1].now > log[i].now
                             THEN GeneratedBranch(log[i + 1].now) ELSE UNDEF

SubmitterReentryWitness ==
    /\ Len(log) = 2
    /\ Reentered(1)
    /\ Set(env.CI_MERGE_REQUEST_SOURCE_BRANCH_NAME)
    /\ log[1].out.created # UNDEF
    /\ log[2].out.created = UNDEF

\* the branch name call i of createMergeRequest computed at lines 710-713
NameObtained(i) == BranchName(env.CI_MERGE_REQUEST_SOURCE_BRANCH_NAME, log[i].now)

\* C28: without a source branch from the pipeline, any two calls of
\* createMergeRequest for the resource obtain different branch names.
DerivedNamesDistinct ==
    ~Set(env.CI_MERGE_REQUEST_SOURCE_BRANCH_NAME) =>
        \A i, j \in 1..Len(log) :
            (i < j /\ SubmitRan(i) /\ SubmitRan(j)) => NameObtained(i) # NameObtained(j)

----------------------------------------------------------------------------
(* createMergeRequest on its own: SubmitSpec calls it once, with or        *)
(* without a tracking comment, and keeps what the call was given.          *)

\* commentId as runPreparePhase may leave it: a number, 0, or undefined
SubmitPrepareResults ==
    {PhaseResult(TRUE, UNDEF, id, UNDEF) : id \in {Num(7), Num(0), Undefined}}

SubmitInit ==
    /\ pc = "submit"
    /\ env \in TreeEnvs
    /\ git \in TreeGitStates
    /\ log = <<>>
    /\ exec = NoExecute
    /\ prepareResult \in SubmitPrepareResults
    /\ executeResult = PhaseResult(FALSE, UNDEF, Undefined, UNDEF)
    /\ updateResult = PhaseResult(FALSE, UNDEF, Undefined, UNDEF)
    /\ exitCode = 0
    /\ exitStatus = NoExit
    /\ files = [json |-> FALSE, txt |-> FALSE]
    /\ fx = NoEffects
    /\ upd = NoUpdate

\* the calls of createMergeRequest that can be made, as log keeps them: the
\* command that failed on its own, whether the push output held a
\* merge-request URL, and what the call did
SubmitCalls ==
    { [failAt |-> failAt, mrUrl |-> mrUrl,
       out |-> CreateMergeRequest(env, git, prepareResult,
                                  env.CI_MERGE_REQUEST_SOURCE_BRANCH_NAME, 1,
                                  failAt, findOk, resetOk, mrUrl, tokenOk)] :
        failAt \in SubmitFaults, findOk \in BOOLEAN, resetOk \in BOOLEAN,
        mrUrl \in BOOLEAN, tokenOk \in BOOLEAN }

\* the call of createMergeRequest
SubmitCall ==
    /\ pc = "submit"
    /\ \E call \in SubmitCalls :
          /\ log' = <<call>>
          /\ git' = call.out.git
          /\ fx' = [fx EXCEPT !.submit = @ + 1,
                              !.commits = @ + call.out.commits,
                              !.pushes = @ + call.out.pushes,
                              !.comments = @ + call.out.comments]
    /\ pc' = "submit_returned"
    /\ UNCHANGED <<env, prepareResult, executeResult, updateResult, exitCode,
                   exitStatus, files, exec, upd>>

SubmitNext == SubmitCall

SubmitSpec == SubmitInit /\ [][SubmitNext]_vars

\* createMergeRequest was called and has returned or thrown
SubmitReturned == pc = "submit_returned"

\* step is among the steps the call completed
Completed(step) == \E k \in 1..Len(log[1].out.steps) : log[1].out.steps[k] = step

\* the provider could not be made or its createComment failed
CommentFailed ==
    log[1].out.raised \in {"GitLab authentication required",
                           "GitLab project ID is required (CI_PROJECT_ID)",
                           "createComment failed"}

----------------------------------------------------------------------------
(* postClaudeResponse on its own: PosterSpec calls it once, on any         *)
(* transcript, with or without a project id, a token and a working API.    *)

PosterEnvs == {ConfiguredEnv, [ConfiguredEnv EXCEPT !.CI_PROJECT_ID = UNDEF]}

\* the transcripts that are records only, one per line
RecordSequences ==
    {t \in Transcripts :
        \A i \in 1..Len(t) : t[i].type \in {"result", "assistant", "system"}}

\* The lines that line 893 gets from a file holding records as one JSON
\* array.  Written on one line, the file is a single line that parses to an
\* array; written over several lines, as jq prints it, it is the brackets and
\* for each record its braces and its fields, none of them JSON on its own
\* and, for the short texts of TranscriptLines, none longer than 50 characters.
ArrayFileLines(records, layout) ==
    IF layout = "compact" THEN <<[type |-> "array"]>>
    ELSE [i \in 1..(2 + 3 * Len(records)) |-> [type |-> "plain", long |-> FALSE]]

\* the file postClaudeResponse reads: JSONL (any lines), or a JSON array of
\* records; content is what the split of line 893 gives
PosterFiles ==
    {[encoding |-> "jsonl", records |-> t, content |-> t] : t \in Transcripts}
        \cup {[encoding |-> "array", records |-> r, content |-> ArrayFileLines(r, layout)] :
                 r \in RecordSequences, layout \in {"compact", "pretty"}}

PosterInit ==
    /\ pc = "poster"
    /\ env \in PosterEnvs
    /\ git \in {g \in GitStates : g.cur = MainBranch /\ g.origin = "expected"}
    /\ log = <<>>
    /\ exec = NoExecute
    /\ prepareResult = PhaseResult(TRUE, UNDEF, Num(7), UNDEF)
    /\ executeResult = PhaseResult(TRUE, UNDEF, Num(7), UNDEF)
    /\ updateResult = PhaseResult(FALSE, UNDEF, Undefined, UNDEF)
    /\ exitCode = 0
    /\ exitStatus = NoExit
    /\ files = [json |-> FALSE, txt |-> FALSE]
    /\ fx = NoEffects
    /\ upd = NoUpdate

\* the call of postClaudeResponse; log keeps what it was given and what it did
PosterCall ==
    /\ pc = "poster"
    /\ \E file \in PosterFiles, tokenOk, commentOk \in BOOLEAN :
          LET out == PostClaudeResponse(env, file.content, tokenOk, commentOk)
          IN  /\ log' = <<[encoding |-> file.encoding, records |-> file.records,
                           content |-> file.content, tokenOk |-> tokenOk,
                           commentOk |-> commentOk, out |-> out]>>
              /\ fx' = [fx EXCEPT !.post = @ + 1, !.comments = @ + out.comments]
    /\ pc' = "poster_returned"
    /\ UNCHANGED <<env, prepareResult, executeResult, updateResult, exitCode,
                   exitStatus, git, files, exec, upd>>

PosterNext == PosterCall

PosterSpec == PosterInit /\ [][PosterNext]_vars

\* postClaudeResponse was called and control is back in the caller
PosterReturned == pc = "poster_returned"

\* C18: postClaudeResponse raises nothing to its caller, whether no file was
\* found, no message was extracted (logged as 'No message found'), or the
\* provider or the posting failed; it posts at most one comment, and posts one
\* only if the message extracted is not empty, that message being the one posted.
PosterNeverThrows ==
    PosterReturned =>
        LET call == log[1]
            noFile == call.content = <<>>
        IN  /\ call.out.raised = UNDEF
            /\ fx.comments = call.out.comments
            /\ call.out.comments \in {0, 1}
            /\ noFile => call.out.comments = 0
            /\ (~noFile /\ ExtractMessage(call.content) = <<>>) =>
                  /\ call.out.comments = 0
                  /\ call.out.outcome = "No message found in Claude's output"
            /\ call.out.comments = 1 =>
                  /\ ~noFile
                  /\ call.out.message # <<>>
                  /\ call.out.message = ExtractMessage(call.content)
                  /\ \E k \in 1..Len(call.content) :
                        call.content[k].type \in {"result", "assistant", "plain"}

\* the posting fails after a message was extracted, and the call returns
PosterNeverThrowsWitness ==
    /\ PosterReturned
    /\ ExtractMessage(log[1].content) = <<"Done.">>
    /\ ~log[1].commentOk
    /\ log[1].tokenOk
    /\ Set(env.CI_PROJECT_ID)
    /\ log[1].out.comments = 0
    /\ log[1].out.outcome = "Error posting Claude's response"

\* the text fragments of the records tagged assistant from line i on, in
\* their order, blank ones left out as trim() leaves them out
RECURSIVE AssistantFragments(_, _)
AssistantFragments(lines, i) ==
    IF i > Len(lines) THEN <<>>
    ELSE IF lines[i].type = "assistant"
        THEN TrimmedTexts(lines[i].texts) \o AssistantFragments(lines, i + 1)
    ELSE AssistantFragments(lines, i + 1)

\* the message by priority over the whole transcript: the text of a record
\* tagged result, else the fragments of the records tagged assistant, else
\* the first long line that is not JSON, else none
MessageByPriority(lines) ==
    LET results == {i \in 1..Len(lines) : lines[i].type = "result" /\ lines[i].text # ""}
    IN  IF results # {}
            THEN <<lines[CHOOSE i \in results : \A j \in results : i <= j].text>>
        ELSE IF AssistantFragments(lines, 1) # <<>> THEN AssistantFragments(lines, 1)
        ELSE IF \E i \in 1..Len(lines) : lines[i].type = "plain" /\ lines[i].long
            THEN <<"plain text">>
        ELSE <<>>

\* the call found a file and nothing failed in the posting
PostingWorked ==
    /\ PosterReturned
    /\ log[1].content # <<>>
    /\ log[1].tokenOk /\ log[1].commentOk /\ Set(env.CI_PROJECT_ID)

\* C25: the message posted is chosen by priority over the whole transcript:
\* the text of a record tagged result if there is one, else the concatenated
\* text fragments of the records tagged assistant, else the first long
\* plain-text line; with none of them no message is posted.
ExtractionByPriority ==
    PostingWorked =>
        /\ log[1].out.message = MessageByPriority(log[1].content)
        /\ log[1].out.comments = IF MessageByPriority(log[1].content) = <<>> THEN 0 ELSE 1

\* C27: for a record sequence held by the file as one JSON array, the message
\* posted is the one posted when the file holds the same records one per line.
SameMessageInBothEncodings ==
    (PostingWorked /\ log[1].encoding = "array") =>
        log[1].out.message = PostClaudeResponse(env, log[1].records, TRUE, TRUE).message

----------------------------------------------------------------------------
(* The updater script on its own: UpdaterSpec runs it once, in any         *)
(* environment, against any answer of GitLab.                              *)

\* process.env of the updater script
UpdaterEnvs ==
    [ CLAUDE_COMMENT_ID    : SeqsUpTo(IdChars, MaxIdLen),
      CLAUDE_SUCCESS       : {"true", "false"},
      PREPARE_SUCCESS      : {"true"},
      OUTPUT_FILE          : {JsonFile},
      PREPARE_ERROR        : {UNDEF, "boom"},
      CI_PROJECT_ID        : {UNDEF, "42"},
      CLAUDE_RESOURCE_ID   : {UNDEF, "5"},
      CI_ISSUE_IID         : {UNDEF, "6"},
      CI_MERGE_REQUEST_IID : {UNDEF, "8"} ]

UpdaterInit ==
    /\ pc = "updater"
    /\ env = ConfiguredEnv
    /\ git \in {g \in GitStates : g.cur = MainBranch /\ g.origin = "expected"}
    /\ log = <<>>
    /\ exec = NoExecute
    /\ prepareResult = PhaseResult(TRUE, UNDEF, Num(7), UNDEF)
    /\ executeResult = PhaseResult(TRUE, UNDEF, Num(7), UNDEF)
    /\ updateResult = PhaseResult(FALSE, UNDEF, Undefined, UNDEF)
    /\ exitCode = 0
    /\ exitStatus = NoExit
    /\ files = [json |-> FALSE, txt |-> FALSE]
    /\ fx = NoEffects
    /\ upd = NoUpdate

\* one run of the script, to the end of its process; log keeps its environment,
\* what GitLab answered and what the run did
UpdaterRuns ==
    /\ pc = "updater"
    /\ \E cenv \in UpdaterEnvs, w \in UpdaterWorlds, details \in BOOLEAN :
          LET out == UpdaterProcess(cenv, w.token, w.note, w.fetchOk, w.editOk, details)
          IN  /\ log' = <<[cenv |-> cenv, world |-> w, out |-> out]>>
              /\ exitStatus' = out.exit
              /\ fx' = [fx EXCEPT !.edits = @ \o out.edits]
    /\ pc' = "updater_exited"
    /\ UNCHANGED <<env, prepareResult, executeResult, updateResult, exitCode, git,
                   files, exec, upd>>

UpdaterNext == UpdaterRuns

UpdaterSpec == UpdaterInit /\ [][UpdaterNext]_vars

\* the updater's process has ended
UpdaterExited == pc = "updater_exited"

\* C19: the updater's process ends with exit code 0 whatever happens; a run in
\* which the fetch of the notes, the look-up of the note or the edit fails logs
\* a warning and makes no edit.
UpdaterAlwaysExitsZero ==
    UpdaterExited =>
        LET run == log[1]
            reached == run.out.fetches # <<>>
        IN  /\ exitStatus = 0
            /\ (reached /\ ~run.world.fetchOk) =>
                  run.out.warning = FetchOrUpdateFailed /\ fx.edits = <<>>
            /\ (reached /\ run.world.fetchOk /\ ~run.world.note.exists) =>
                  run.out.warning = FetchOrUpdateFailed /\ fx.edits = <<>>
            /\ (reached /\ run.world.fetchOk /\ run.world.note.exists
                   /\ ~run.world.editOk) =>
                  run.out.warning = FetchOrUpdateFailed /\ fx.edits = <<>>
            /\ run.out.warning = UNDEF <=> Len(fx.edits) = 1

\* the edit is refused by GitLab, and the process still ends with 0
UpdaterAlwaysExitsZeroWitness ==
    /\ UpdaterExited
    /\ log[1].out.editCalls # <<>>
    /\ ~log[1].world.editOk
    /\ log[1].out.warning = FetchOrUpdateFailed
    /\ exitStatus = 0

\* the issue id of the run: CI_ISSUE_IID, or else CLAUDE_RESOURCE_ID (line 146)
IssueIdOf(cenv) ==
    IF Set(cenv.CI_ISSUE_IID) THEN cenv.CI_ISSUE_IID ELSE cenv.CLAUDE_RESOURCE_ID

\* the run has a valid comment id, a project id and a token
UpdaterConfigured ==
    /\ ParseInt(log[1].cenv.CLAUDE_COMMENT_ID) # NaN
    /\ Set(log[1].cenv.CI_PROJECT_ID)
    /\ log[1].world.token

\* C20: with CI_MERGE_REQUEST_IID set the updater fetches and edits the notes
\* of that merge request; otherwise it fetches and edits the notes of the
\* issue whose id is CI_ISSUE_IID or else CLAUDE_RESOURCE_ID; with none of them
\* set it ends with the error 'Neither CI_MERGE_REQUEST_IID nor CI_ISSUE_IID is
\* set' and asks for no notes and no edit.  It never asks for anything else.
UpdaterResolvesResource ==
    UpdaterExited =>
        LET run    == log[1]
            mrIid  == run.cenv.CI_MERGE_REQUEST_IID
            issue  == IssueIdOf(run.cenv)
            target == IF Set(mrIid) THEN [resource |-> "merge_request", iid |-> mrIid]
                      ELSE [resource |-> "issue", iid |-> issue]
            calls  == run.out.fetches \o
                      [k \in 1..Len(run.out.editCalls) |->
                          [resource |-> run.out.editCalls[k].resource,
                           iid |-> run.out.editCalls[k].iid]]
        IN  /\ \A k \in 1..Len(calls) : calls[k] = target
            /\ Len(run.out.fetches) <= 1 /\ Len(run.out.editCalls) <= 1
            /\ run.out.editCalls # <<>> => run.out.fetches # <<>>
            /\ (UpdaterConfigured /\ (Set(mrIid) \/ Set(issue))) =>
                  run.out.fetches = <<target>>
            /\ (UpdaterConfigured /\ (Set(mrIid) \/ Set(issue))
                   /\ run.world.fetchOk /\ run.world.note.exists) =>
                  Len(run.out.editCalls) = 1
            /\ (~Set(mrIid) /\ ~Set(issue)) =>
                  /\ calls = <<>>
                  /\ run.out.warning # UNDEF
                  /\ (ParseInt(run.cenv.CLAUDE_COMMENT_ID) # NaN
                         /\ Set(run.cenv.CI_PROJECT_ID)) =>
                        run.out.warning =
                            "Neither CI_MERGE_REQUEST_IID nor CI_ISSUE_IID is set"

\* both ids are set and the merge request's note is the one edited
UpdaterResolvesResourceWitness ==
    /\ UpdaterExited
    /\ Set(log[1].cenv.CI_MERGE_REQUEST_IID)
    /\ Set(log[1].cenv.CI_ISSUE_IID)
    /\ Len(fx.edits) = 1
    /\ fx.edits[1].resource = "merge_request"
    /\ fx.edits[1].iid = log[1].cenv.CI_MERGE_REQUEST_IID

----------------------------------------------------------------------------
(* formatGitLabCommentBody on its own: FormatSpec applies it to any note   *)
(* body, and again to its own result.                                      *)

\* longest note body that is edited
MaxNoteLen == 3

\* how many times in a row a body is edited
MaxEdits == 2

\* the bodies a tracking note may have before its first edit
NoteBodies == SeqsUpTo({WORKING, TODO, JOBURL, "text"}, MaxNoteLen)

\* everything but pc and log, as a job has it before main starts
JobIdle ==
    /\ MainNotStarted
    /\ exec = NoExecute
    /\ git \in {g \in GitStates : g.cur = MainBranch /\ g.origin = "expected"}

FormatInit ==
    /\ pc = "format"
    /\ log = <<>>
    /\ JobIdle

\* one edit: of any body the first time, of the result of the latest edit
\* afterwards; log keeps the arguments and the result
FormatEdit ==
    /\ pc = "format"
    /\ Len(log) < MaxEdits
    /\ \E initialBody \in IF log = <<>> THEN NoteBodies ELSE {log[Len(log)].after},
          success, details \in BOOLEAN, errorDetails \in {UNDEF, "boom"} :
          log' = Append(log, [before |-> initialBody, success |-> success,
                              errorDetails |-> errorDetails, details |-> details,
                              after |-> FormatGitLabCommentBody(initialBody, success,
                                                                errorDetails, details)])
    /\ UNCHANGED <<pc, env, prepareResult, executeResult, updateResult, exitCode,
                   exitStatus, git, files, fx, exec, upd>>

FormatNext == FormatEdit

FormatSpec == FormatInit /\ [][FormatNext]_vars

\* how many pieces of body are piece
CountOf(body, piece) == Cardinality({i \in 1..Len(body) : body[i] = piece})

\* the position of the first in-progress marker of body (0: none)
FirstWorking(body) ==
    IF \E i \in 1..Len(body) : body[i] = WORKING
        THEN CHOOSE i \in 1..Len(body) :
                body[i] = WORKING /\ \A j \in 1..(i - 1) : body[j] # WORKING
    ELSE 0

\* what an edit appends to the body
Appended(e) == SubSeq(e.after, Len(e.before) + 1, Len(e.after))

\* C21: in every edit the (first) in-progress marker of the body becomes the
\* success marker if the run succeeded and the failure marker otherwise,
\* every checklist item becomes a checked one, everything else stays, the
\* result holds the job URL, and what is appended is the job link if and only
\* if the body did not hold the job URL, then the error text if and only if
\* one is given, then the footer if and only if there are execution details;
\* an edit of an edited body adds no second job link.
EditedBodyAsSpecified ==
    \A k \in 1..Len(log) :
        LET e == log[k]
        IN  /\ Len(e.after) >= Len(e.before)
            /\ \A i \in 1..Len(e.before) :
                  e.after[i] = IF i = FirstWorking(e.before)
                                   THEN (IF e.success THEN DONE ELSE FAILED)
                               ELSE IF e.before[i] = TODO THEN CHECKED
                               ELSE e.before[i]
            /\ CountOf(e.after, TODO) = 0
            /\ IncludesJobUrl(e.after)
            /\ Appended(e) =
                  (IF IncludesJobUrl(e.before) THEN <<>> ELSE <<LINK>>)
                  \o (IF Set(e.errorDetails) THEN <<ERRORTEXT>> ELSE <<>>)
                  \o (IF e.details THEN <<FOOTER>> ELSE <<>>)
            /\ k > 1 => CountOf(e.after, LINK) = CountOf(e.before, LINK)

\* a body with marker and checklist item and no URL, edited twice after a failure
EditedBodyAsSpecifiedWitness ==
    /\ Len(log) = 2
    /\ log[1].before = <<WORKING, TODO, "text">>
    /\ ~log[1].success
    /\ log[1].after = <<FAILED, CHECKED, "text", LINK, ERRORTEXT, FOOTER>>
    /\ CountOf(log[2].after, LINK) = 1

----------------------------------------------------------------------------
(* getExecutionDetails (lines 13-92) on its own: DetailsSpec calls it once, *)
(* with any OUTPUT_FILE and any content of the two transcript files.       *)

\* The JSON values a transcript holds, as getExecutionDetails tells them
\* apart: a record tagged result with or without cost_usd and duration_ms, a
\* record with another tag, and the value null.
DetailRecords ==
    [type : {"result"}, cost_usd : {UNDEF, "0.02", "0.05"}, duration_ms : {UNDEF, "1500"}]
        \cup [type : {"assistant", "null"}, cost_usd : {UNDEF}, duration_ms : {UNDEF}]

\* a line that is not JSON and is part of no JSON text, and a blank line
MalformedLine == [type |-> "malformed", cost_usd |-> UNDEF, duration_ms |-> UNDEF]
BlankLine == [type |-> "blank", cost_usd |-> UNDEF, duration_ms |-> UNDEF]

IsRecord(line) == line.type \notin {"malformed", "blank"}

\* What a file holds: one JSON array of records, or lines, each a record, a
\* malformed line or a blank one.  No lines at all is the empty file.
FileContents ==
    [kind : {"array"}, items : UNION {[1..n -> DetailRecords] : n \in 0..MaxLines}]
        \cup [kind : {"lines"},
              items : UNION {[1..n -> DetailRecords \cup {MalformedLine, BlankLine}] :
                                n \in 0..MaxLines}]

EmptyFile == [kind |-> "lines", items |-> <<>>]

\* a file that does not exist, and one whose read fails
Absent == [kind |-> "absent", items |-> <<>>]
Unreadable == [kind |-> "unreadable", items |-> <<>>]

\* a reader that gives up at the first malformed line
JsonlRecordsUntilMalformed(lines) ==
    LET bad == {i \in 1..Len(lines) : lines[i] = MalformedLine}
        stop == IF bad = {} THEN Len(lines) + 1
                ELSE CHOOSE i \in bad : \A j \in bad : i <= j
    IN  SelectSeq(SubSeq(lines, 1, stop - 1), IsRecord)

\* lines 62-72: the records of the lines that parse, in their order
JsonlRecords(lines) == SelectSeq(lines, IsRecord)

\* JSON.parse(fileContent) of line 60 succeeds: the content is one JSON text
\* (an array, or a single record with blank lines around it)
ParsesWhole(content) ==
    \/ content.kind = "array"
    \/ LET written == SelectSeq(content.items, LAMBDA l : l # BlankLine)
       IN  Len(written) = 1 /\ IsRecord(written[1])

\* outputData at line 75: whether it is an array, and its elements (for a
\* value that is no array, the value)
OutputData(content) ==
    IF content.kind = "array" THEN [isArray |-> TRUE, items |-> content.items]
    ELSE IF ParsesWhole(content)
        THEN [isArray |-> FALSE, items |-> SelectSeq(content.items, IsRecord)]
    ELSE [isArray |-> TRUE, items |-> JsonlRecords(content.items)]

\* null, as a value of the type of the details
NoDetails == [cost_usd |-> UNDEF, duration_ms |-> UNDEF]

\* lines 75-85 for outputData = data: find throws a TypeError on a value that
\* is no array and on an element null that it reaches; the first record
\* tagged result gives the details when it has both fields
FindDetails(data) ==
    LET hits  == {i \in 1..Len(data.items) : data.items[i].type = "result"}
        first == IF hits = {} THEN Len(data.items) + 1
                 ELSE CHOOSE i \in hits : \A j \in hits : i <= j
        nulls == {i \in 1..Len(data.items) : data.items[i].type = "null" /\ i < first}
    IN  IF ~data.isArray \/ nulls # {} THEN [threw |-> TRUE, details |-> NoDetails]
        ELSE IF hits = {} THEN [threw |-> FALSE, details |-> NoDetails]
        ELSE LET result == data.items[first]
             IN  IF Set(result.cost_usd) /\ Set(result.duration_ms)
                     THEN [threw |-> FALSE,
                           details |-> [cost_usd |-> result.cost_usd,
                                        duration_ms |-> result.duration_ms]]
                 ELSE [threw |-> FALSE, details |-> NoDetails]

\* a handler that passes the error on to run()
DetailsCatchRethrows(threw) == threw

\* lines 86-90: the catch of getExecutionDetails warns and goes on to return
\* null; the result is whether the caller sees an error
DetailsCatch(threw) == FALSE

\* the files of the temp directory
ContentOf(name, world) ==
    IF name = JsonFile THEN world.json ELSE IF name = TxtFile THEN world.txt ELSE Absent

\* lines 38-49: the first candidate that exists and can be read (UNDEF: none)
RECURSIVE FirstReadable(_, _)
FirstReadable(candidates, world) ==
    IF candidates = <<>> THEN UNDEF
    ELSE IF ContentOf(Head(candidates), world).kind \in {"array", "lines"}
        THEN Head(candidates)
    ELSE FirstReadable(Tail(candidates), world)

\* getExecutionDetails(outputFile) (lines 13-92) when the two files are as
\* world says: the file read (UNDEF: none), the details returned (NoDetails:
\* null), whether a warning was logged and whether the caller sees an error
GetExecutionDetails(outputFile, world) ==
    IF ~Set(outputFile)
        THEN [file |-> UNDEF, details |-> NoDetails, warned |-> FALSE, threw |-> FALSE]
    ELSE LET file == FirstReadable(<<outputFile, JsonFile, TxtFile>>, world)
         IN  IF file = UNDEF \/ ContentOf(file, world) = EmptyFile
                 THEN [file |-> file, details |-> NoDetails, warned |-> TRUE,
                       threw |-> FALSE]
             ELSE LET found == FindDetails(OutputData(ContentOf(file, world)))
                  IN  [file |-> file, details |-> found.details, warned |-> found.threw,
                       threw |-> found.threw /\ DetailsCatch(found.threw)]

\* the contents the second file is given
SampleContents ==
    { Absent, Unreadable, EmptyFile,
      [kind |-> "lines", items |-> <<MalformedLine>>],
      [kind |-> "lines",
       items |-> <<[type |-> "assistant", cost_usd |-> UNDEF, duration_ms |-> UNDEF],
                   [type |-> "result", cost_usd |-> "0.02", duration_ms |-> "1500"]>>] }

\* the two transcript files: one holds anything, the other a sample
DetailsWorlds ==
    {[json |-> a, txt |-> b] : a \in FileContents \cup {Absent, Unreadable},
                               b \in SampleContents}
        \cup {[json |-> b, txt |-> a] : a \in FileContents \cup {Absent, Unreadable},
                                        b \in SampleContents}

DetailsInit ==
    /\ pc = "details"
    /\ log = <<>>
    /\ JobIdle

\* the call of line 187; log keeps what it was given and what it gave
DetailsCall ==
    /\ pc = "details"
    /\ \E outputFile \in {UNDEF, JsonFile, TxtFile}, world \in DetailsWorlds :
          log' = <<[outputFile |-> outputFile, world |-> world,
                    out |-> GetExecutionDetails(outputFile, world)]>>
    /\ pc' = "details_returned"
    /\ UNCHANGED <<env, prepareResult, executeResult, updateResult, exitCode,
                   exitStatus, git, files, fx, exec, upd>>

DetailsNext == DetailsCall

DetailsSpec == DetailsInit /\ [][DetailsNext]_vars

\* getExecutionDetails was called and control is back in run()
DetailsReturned == pc = "details_returned"

\* the content of the file the call read
ContentRead == ContentOf(log[1].out.file, log[1].world)

Decodable(content) ==
    \/ content.kind = "array"
    \/ /\ content.kind = "lines"
       /\ \E i \in 1..Len(content.items) : IsRecord(content.items[i])

\* the first of the candidates whose content decodes (UNDEF: none)
RECURSIVE FirstDecodable(_, _)
FirstDecodable(candidates, world) ==
    IF candidates = <<>> THEN UNDEF
    ELSE IF Decodable(ContentOf(Head(candidates), world)) THEN Head(candidates)
    ELSE FirstDecodable(Tail(candidates), world)

\* C24: called with an override, the reader returns what the first candidate
\* that exists and decodes gives (override, JSON file, output.txt, in this
\* order), null when no candidate decodes, and never raises to its caller.
ReadsFirstDecodable ==
    (DetailsReturned /\ Set(log[1].outputFile)) =>
        LET file == FirstDecodable(<<log[1].outputFile, JsonFile, TxtFile>>, log[1].world)
        IN  /\ ~log[1].out.threw
            /\ log[1].out.details =
                  IF file = UNDEF THEN NoDetails
                  ELSE FindDetails(OutputData(ContentOf(file, log[1].world))).details

\* the records a content decodes to
RecordsOf(content) == SelectSeq(content.items, IsRecord)

\* the content read is a JSON array or JSONL, of at least one record, all of
\* them JSON objects, and its first record tagged result has both fields
HasCostedResult(content) ==
    /\ Decodable(content)
    /\ \A i \in 1..Len(content.items) :
          IsRecord(content.items[i]) /\ content.items[i].type # "null"
    /\ \E i \in 1..Len(content.items) :
          /\ content.items[i].type = "result"
          /\ \A j \in 1..(i - 1) : content.items[j].type # "result"
          /\ Set(content.items[i].cost_usd) /\ Set(content.items[i].duration_ms)

\* C26: when the file read decodes to a non-empty record sequence, as a JSON
\* array or as JSONL of any number of lines, and its first record tagged
\* result has cost and duration, these two are the details returned.
DetailsOfFirstResult ==
    (DetailsReturned /\ log[1].out.file # UNDEF /\ HasCostedResult(ContentRead)) =>
        \E i \in 1..Len(ContentRead.items) :
           /\ ContentRead.items[i].type = "result"
           /\ \A j \in 1..(i - 1) : ContentRead.items[j].type # "result"
           /\ log[1].out.details = [cost_usd |-> ContentRead.items[i].cost_usd,
                                    duration_ms |-> ContentRead.items[i].duration_ms]

----------------------------------------------------------------------------
(* The resource of a job: ResourceSpec makes the provider as the poster    *)
(* and the submitter do, then runs the update script as runUpdatePhase     *)
(* does, in any environment of the job.                                    *)

\* createProvider({platform: "gitlab", ...}) (provider-factory.ts, lines
\* 52-113) in the environment e: the error it throws (UNDEF: none) and the
\* mrIid and issueIid it gives the GitLab provider
CreateProvider(e) ==
    LET resourceType     == e.CLAUDE_RESOURCE_TYPE
        claudeResourceId == e.CLAUDE_RESOURCE_ID
        mrIid    == IF resourceType = "merge_request" /\ Set(claudeResourceId)
                        THEN claudeResourceId
                    ELSE IF resourceType = "issue" /\ Set(claudeResourceId) THEN UNDEF
                    ELSE e.CI_MERGE_REQUEST_IID
        issueIid == IF resourceType = "merge_request" /\ Set(claudeResourceId) THEN UNDEF
                    ELSE claudeResourceId
    IN  IF ~Set(e.CI_PROJECT_ID)
            THEN [threw |-> "GitLab project ID is required (CI_PROJECT_ID)",
                  mrIid |-> UNDEF, issueIid |-> UNDEF]
        ELSE [threw |-> UNDEF, mrIid |-> mrIid, issueIid |-> issueIid]

ResourceInit ==
    /\ pc = "resource"
    /\ env \in {e \in Envs : Set(e.CI_PROJECT_DIR)}
    /\ git \in {g \in GitStates : g.cur = MainBranch /\ g.origin = "expected"}
    /\ log = <<>>
    /\ exec = NoExecute
    /\ prepareResult = PhaseResult(TRUE, UNDEF, Num(7), UNDEF)
    /\ executeResult = PhaseResult(TRUE, UNDEF, Num(7), UNDEF)
    /\ updateResult = PhaseResult(FALSE, UNDEF, Undefined, UNDEF)
    /\ exitCode = 0
    /\ exitStatus = NoExit
    /\ files = [json |-> FALSE, txt |-> FALSE]
    /\ fx = NoEffects
    /\ upd = NoUpdate

\* lines 830-834 and 940-944: the provider is made; log keeps its options
ResourceProvider ==
    /\ pc = "resource"
    /\ log' = <<[op |-> "provider", options |-> CreateProvider(env)]>>
    /\ pc' = "resource_posted"
    /\ UNCHANGED <<env, prepareResult, executeResult, updateResult, exitCode,
                   exitStatus, git, files, fx, exec, upd>>

\* lines 1009-1053 and run(): the update script runs in the environment
\* runUpdatePhase gives it; log keeps the job's CI_ISSUE_IID and the notes the
\* script asked for
ResourceUpdater ==
    /\ pc = "resource_posted"
    /\ \E issueIid \in {UNDEF, "6"}, w \in UpdaterWorlds :
          LET cenv == UpdateScriptEnv(env, prepareResult, executeResult, files,
                                      issueIid, UNDEF)
              out  == UpdaterProcess(cenv, w.token, w.note, w.fetchOk, w.editOk, FALSE)
          IN  /\ log' = Append(log, [op |-> "updater", issueIid |-> issueIid,
                                     fetches |-> out.fetches])
              /\ fx' = [fx EXCEPT !.updater = Append(@, Handed(cenv)),
                                  !.edits = @ \o out.edits]
    /\ pc' = "resource_tracked"
    /\ UNCHANGED <<env, prepareResult, executeResult, updateResult, exitCode,
                   exitStatus, git, files, exec, upd>>

ResourceNext == ResourceProvider \/ ResourceUpdater

ResourceSpec == ResourceInit /\ [][ResourceNext]_vars

\* the resources a provider made with these options can post to: the merge
\* request mrIid, the issue issueIid
Selected(options) ==
    {[resource |-> "merge_request", iid |-> options.mrIid] : x \in {1} \cap
        (IF Set(options.mrIid) THEN {1} ELSE {})}
    \cup {[resource |-> "issue", iid |-> options.issueIid] : x \in {1} \cap
        (IF Set(options.issueIid) THEN {1} ELSE {})}

\* the provider was made with a resource and the update script asked for notes
BothSelected ==
    /\ pc = "resource_tracked"
    /\ log[1].options.threw = UNDEF
    /\ Selected(log[1].options) # {}
    /\ log[2].fetches # <<>>

\* C33: in every environment of the job, the resource whose notes the update
\* script fetches and edits is the resource that createProvider selected for
\* the comments of the job.
SameResourceSelected ==
    BothSelected => log[2].fetches[1] \in Selected(log[1].options)

----------------------------------------------------------------------------
(* checkGitStatus when something fails: ClassifySpec makes the call of     *)
(* line 967 in any environment, on any repository the assistant may leave, *)
(* with any of its commands failing.                                       *)

\* the job with or without CI_PROJECT_DIR and CI_PROJECT_PATH
ClassifyEnvs ==
    { [ConfiguredEnv EXCEPT !.CI_PROJECT_DIR = dir, !.CI_PROJECT_PATH = path] :
        dir \in {UNDEF, "/builds/group/project"}, path \in {UNDEF, "group/project"} }

ClassifyInit ==
    /\ pc = "upd_classify"
    /\ env \in ClassifyEnvs
    /\ git \in TreeGitStates
    /\ log = <<>>
    /\ exec = NoExecute
    /\ prepareResult = PhaseResult(TRUE, UNDEF, Num(7), UNDEF)
    /\ executeResult = PhaseResult(TRUE, UNDEF, Num(7), UNDEF)
    /\ updateResult = PhaseResult(FALSE, UNDEF, Undefined, UNDEF)
    /\ exitCode = 0
    /\ exitStatus = NoExit
    /\ files = [json |-> FALSE, txt |-> FALSE]
    /\ fx = NoEffects
    /\ upd = NoUpdate

\* lines 967-975: the call of checkGitStatus and the branch taken on its
\* answer; log keeps the repository before the call, what failed in it and
\* what it gave
ClassifyCall ==
    /\ pc = "upd_classify"
    /\ \E o \in ClassifyOutcomes :
          LET out == CheckGitStatus(env, git, o)
          IN  /\ git' = out.git
              /\ upd' = [upd EXCEPT !.hasChanges = out.result]
              /\ pc' = UpdateDispatch(out.result)
              /\ log' = <<[op |-> "classify", before |-> git, o |-> o, out |-> out]>>
    /\ fx' = [fx EXCEPT !.classify = @ + 1]
    /\ UNCHANGED <<exec, env, prepareResult, executeResult, updateResult, exitCode,
                   exitStatus, files>>

ClassifyNext == ClassifyCall

ClassifySpec == ClassifyInit /\ [][ClassifyNext]_vars

ClassifyReturned == log # <<>>

\* the call ended before the clean-up of lines 599-615: no project directory
\* (558), chdir threw (564), `git remote get-url origin` failed (569), or the
\* origin is not the expected project (573)
EndedBeforeCleanup ==
    \/ ~Set(env.CI_PROJECT_DIR)
    \/ ~log[1].o.chdirOk
    \/ ~log[1].o.remoteOk
    \/ Set(env.CI_PROJECT_PATH) /\ log[1].before.origin # "expected"

\* `git status --porcelain` (618) failed after the clean-up
StatusFailed == ~EndedBeforeCleanup /\ ~log[1].o.statusOk

\* the working tree held a new file that the clean-up deletes
HadNoiseFile ==
    \E p \in log[1].before.tree : ~p.tracked /\ (FindNoise(p.path) \/ UnderClaudeDir(p.path))

\* the call answered false and runUpdatePhase goes on to postClaudeResponse
AnsweredNoChange ==
    /\ ~log[1].out.result
    /\ upd.hasChanges = FALSE
    /\ pc = "upd_post"

\* C34 as stated: checkGitStatus never raises; without a project directory,
\* with an origin that is not the expected project, or with a git command
\* failing, it answers false without deleting a file, and runUpdatePhase goes
\* on to postClaudeResponse.
FailsWithoutDeleting ==
    (ClassifyReturned /\ (EndedBeforeCleanup \/ StatusFailed)) =>
        /\ AnsweredNoChange
        /\ log[1].out.git = log[1].before

\* C34: checkGitStatus never raises.  When it ends before its clean-up (no
\* project directory, chdir or `git remote get-url origin` failing, an origin
\* that is not the expected project) it answers false and the working tree is
\* as it was; when `git status` fails after the clean-up it answers false
\* too, the files the clean-up deleted being gone; in both cases
\* runUpdatePhase goes on to postClaudeResponse.
FailsClosed ==
    ClassifyReturned =>
        /\ EndedBeforeCleanup =>
              /\ AnsweredNoChange
              /\ log[1].out.git = log[1].before
        /\ StatusFailed =>
              /\ AnsweredNoChange
              /\ log[1].out.git.tree \subseteq log[1].before.tree
              /\ \A p \in log[1].before.tree \ log[1].out.git.tree :
                    ~p.tracked /\ (FindNoise(p.path) \/ UnderClaudeDir(p.path))

\* the origin is not the expected project, the tree holds a noise file, and
\* the call answered false
FailsClosedWitness ==
    /\ ClassifyReturned
    /\ EndedBeforeCleanup
    /\ log[1].o.chdirOk /\ log[1].o.remoteOk /\ log[1].o.findOk /\ log[1].o.rmOk
    /\ HadNoiseFile
    /\ AnsweredNoChange

====
